---- MODULE Spec2Model ----
(***************************************************************************)
(* State-machine model of the QuizApp component (src/unnamed/part_001,     *)
(* both recorded versions), the CategorySelector dialog                    *)
(* (src/unnamed/part_000) and the QuizCard navigation callbacks            *)
(* (src/src/components/QuizCard.tsx).                                      *)
(*                                                                         *)
(* One action is one event handler, timer callback or promise             *)
(* continuation together with the re-render and the effects React runs     *)
(* because of the state it set.  Indexes: currentIndex is 0-based as in    *)
(* the source, TLA+ sequences are 1-based, so the source's slides[i] is    *)
(* slides[i + 1] here.                                                     *)
(***************************************************************************)
EXTENDS Integers, Sequences, FiniteSets, TLC

\* ------------------------------------------------------------------ bounds
\* Longest list of well-formed data rows a fetch delivers.
MaxRows == 3
\* Most timers (settle and clear together) pending at one time.
MaxPending == 2
\* Longest list handed to smartShuffle on its own.
MaxShuffle == 4
\* Longest line of the texts of one arbitrary line handed to the parse loop.
MaxLineLen == 4
\* Most lines of the texts of sample lines handed to the parse loop.
MaxLines == 3

\* ------------------------------------------------------------ value spaces
\* The two versions of QuizApp recorded in part_001: version 1 takes the intro
\* from the reserved category, version 2 takes it by row position.
Variants == {1, 2}

IntroCategory == "01 Intro"
Categories == {"A", "B"}
Depths == {"light", "deep"}

\* animationClass values
NoAnimation == ""
SlideOutLeft == "animate-slide-out-left"
SlideInRight == "animate-slide-in-right"
SlideOutRight == "animate-slide-out-right"
SlideInLeft == "animate-slide-in-left"

\* A Question; its text is modelled by the number of the data row it came from,
\* so two rows never give equal Questions.
Question(c, t, d) == [category |-> c, question |-> t, depth |-> d]

\* useState<Question | null>(null)
Null == [category |-> "null", question |-> 0, depth |-> "null"]

\* The same for the parse loop, whose fields are lists of characters:
\* let introContent: Question | null = null
NoIntro == [category |-> <<>>, question |-> <<>>, depth |-> "null"]

\* The (category, depth_hint) of a well-formed data row.  Version 2 gives the
\* reserved category no role of its own, so its rows use the other categories.
RowChoices(v) ==
    {<<c, d>> : c \in (IF v = 1 THEN Categories \cup {IntroCategory} ELSE Categories),
                d \in Depths}

\* The data rows a fetch can deliver: every list of at most MaxRows rows, behind
\* a header line or not.
FetchInputs(v) ==
    {[hasHeader |-> h, rows |-> r] :
        h \in BOOLEAN, r \in UNION {[1..n -> RowChoices(v)] : n \in 0..MaxRows}}

\* Two sample sheets: one with a header line and a first row of the reserved
\* category, one without such a row.
IntroSheet ==
    <<<<IntroCategory, "deep">>, <<"A", "light">>, <<"B", "deep">>, <<"A", "deep">>,
      <<"B", "light">>>>
PlainSheet ==
    <<<<"A", "light">>, <<"B", "deep">>, <<"A", "deep">>, <<"B", "light">>,
      <<"A", "light">>>>

\* What the navigation specification fetches: the first rows of a sample sheet.
SheetInputs ==
    {[hasHeader |-> TRUE, rows |-> SubSeq(IntroSheet, 1, n)] : n \in 0..MaxRows}
    \cup {[hasHeader |-> h, rows |-> SubSeq(PlainSheet, 1, n)] :
            h \in BOOLEAN, n \in 0..MaxRows}

VARIABLES
    variant,               \* which recorded version of QuizApp runs
    currentIndex,          \* useState(0)
    animationClass,        \* useState('')
    questions,             \* useState<Question[]>([])
    allQuestions,          \* useState<Question[]>([])
    introSlide,            \* useState<Question | null>(null)
    slides,                \* useState<SlideItem[]>([])
    loading,               \* useState(true)
    categorySelectorOpen,  \* useState(false)
    selectedCategories,    \* useState<string[]>([])
    availableCategories,   \* useState<string[]>([])
    isMixedMode,           \* useState(true)
    categoryColorMap,      \* useState<{[category]: number}>({})
    tempSelection,         \* CategorySelector: useState<string[]>(selectedCategories)
    tempIsSelected,        \* tempSelection is the very array selectedCategories holds
    timers,                \* pending setTimeout callbacks, oldest first
    keySlidesLength,       \* slides.length seen by the registered keydown listener
    renderError,           \* the render threw (slides[currentIndex] undefined)
    tripPhase,             \* observer: how far an observed next-then-prev trip got
    tripStart,             \* observer: currentIndex when the observed trip began
    shuffleInput,          \* smartShuffle on its own: the list it was called with
    shuffleOutput,         \* smartShuffle on its own: what the call gave
    parsePc,               \* parse loop on its own: "idle", "scan" or "done"
    parseText,             \* csvText.split('\n')
    parseLines,            \* lines: the lines of parseText that are not blank
    parseI,                \* i of the loop over lines
    scanLine,              \* line = lines[i].trim()
    scanJ,                 \* j of the loop over the characters of line
    scanCurrent,           \* current
    scanInQuotes,          \* inQuotes
    scanValues,            \* values
    parseQuestions,        \* questions
    parseIntro,            \* introContent
    fetchPc,               \* fetchQuestions: the await it is suspended at, or "done"
    requests,              \* the requests fetchQuestions has issued, oldest first
    primaryResult,         \* how the request for the spreadsheet ended
    secondaryResult,       \* how the request for /quiz_questions.csv ended
    fetchOutcome,          \* which way fetchQuestions left its outer try block
    fetchPromise,          \* the promise fetchQuestions() returned
    startX,                \* document listener effect: let startX
    startY,                \* document listener effect: let startY
    isDragging,            \* document listener effect: let isDragging
    docCommand,            \* the last handleEnd since a press: what it read and called
    touchStart,            \* QuizCard: useState<number | null>(null)
    touchEnd,              \* QuizCard: useState<number | null>(null)
    mouseStart,            \* QuizCard: useState<number | null>(null)
    mouseEnd,              \* QuizCard: useState<number | null>(null)
    cardIsDragging,        \* QuizCard: const [isDragging, setIsDragging] = useState(false)
    pointer,               \* the finger or mouse button: where it is, what is dispatched next
    cardCommand,           \* what the card's handlers read and called since the last press
    issued,                \* navigation calls since the last press that passed their guard
    staleSettles,          \* observer: settle timers pending since before the deck was replaced
    navigated              \* observer: a navigation call passed its guard on the present deck

\* The state of the program.
appVars == <<variant, currentIndex, animationClass, questions, allQuestions, introSlide,
          slides, loading, categorySelectorOpen, selectedCategories,
          availableCategories, isMixedMode, categoryColorMap, tempSelection,
          tempIsSelected, timers, keySlidesLength, renderError>>

\* The observer of the round trips, which no operation of the program reads.
tripVars == <<tripPhase, tripStart>>

\* A call of smartShuffle on its own.
shuffleVars == <<shuffleInput, shuffleOutput>>

\* The parse loop of fetchQuestions on its own.
parseVars == <<parsePc, parseText, parseLines, parseI, scanLine, scanJ, scanCurrent,
               scanInQuotes, scanValues, parseQuestions, parseIntro>>

\* The requests of fetchQuestions and the way it ends.
fetchVars == <<fetchPc, requests, primaryResult, secondaryResult, fetchOutcome,
               fetchPromise>>

\* The closure variables of the document listener effect, and its last command.
swipeVars == <<startX, startY, isDragging, docCommand>>

\* The state of QuizCard, the pointer and what one press and release caused.
cardVars == <<touchStart, touchEnd, mouseStart, mouseEnd, cardIsDragging, pointer,
              cardCommand, issued>>

\* The observer of the timers that outlive a deck, which no operation reads.
staleVars == <<staleSettles, navigated>>

\* The variables of the parts modelled on their own.
auxVars == <<shuffleVars, parseVars, fetchVars, swipeVars, cardVars, staleVars>>

vars == <<appVars, tripVars, auxVars>>

\* The variables no navigation call, timer or render writes.
dataVars == <<variant, questions, allQuestions, introSlide, slides, loading,
              categorySelectorOpen, selectedCategories, availableCategories,
              isMixedMode, categoryColorMap, tempSelection, tempIsSelected>>

\* ----------------------------------------------------------------- helpers
Range(s) == {s[i] : i \in DOMAIN s}

\* Array.prototype.includes
Includes(s, x) == \E i \in DOMAIN s : s[i] = x

\* Every enumeration of the finite set S as a sequence without repetition.
RECURSIVE PermSeqs(_)
PermSeqs(S) ==
    IF S = {} THEN {<<>>}
    ELSE UNION {{<<x>> \o p : p \in PermSeqs(S \ {x})} : x \in S}

\* Array.from(new Set(list)): the first occurrence of every value, in order.
RECURSIVE Unique(_)
Unique(s) ==
    IF s = <<>> THEN <<>>
    ELSE LET init == Unique(SubSeq(s, 1, Len(s) - 1))
             last == s[Len(s)]
         IN IF Includes(init, last) THEN init ELSE Append(init, last)

\* list.map(q => q.category)
CategoryList(list) == [i \in DOMAIN list |-> list[i].category]

\* ---------------------------------------------------------- smartShuffle
\* The questions of one category, as a set (Questions are pairwise different).
CategoryGroup(list, c) == {list[i] : i \in {j \in DOMAIN list : list[j].category = c}}

\* Names every object inherits from Object.prototype (some of them):
\* categorizedQuestions is an object literal, so categorizedQuestions[name] is
\* truthy for these before any question was grouped.
PrototypeKeys ==
    {"constructor", "toString", "valueOf", "hasOwnProperty", "isPrototypeOf",
     "toLocaleString", "__proto__"}

\* The grouping loop throws a TypeError at a question of such a category: no
\* array is created for it and the inherited value has no push.
ShuffleThrows(list) == \E i \in DOMAIN list : list[i].category \in PrototypeKeys

\* Variant of Sweep whose first sweep takes every question.
SweepEverything(grouped, k) ==
    IF k = 1 THEN UNION {Range(grouped[c]) : c \in DOMAIN grouped} ELSE {}

\* One sweep takes the k-th question of every category that still has one.
Sweep(grouped, k) ==
    {grouped[c][k] : c \in {d \in DOMAIN grouped : Len(grouped[d]) >= k}}

\* The sweeps from the k-th on; each sweep visits the categories in a fresh random
\* order.
RECURSIVE Sweeps(_, _)
Sweeps(grouped, k) ==
    IF Sweep(grouped, k) = {} THEN {<<>>}
    ELSE {p \o r : p \in PermSeqs(Sweep(grouped, k)), r \in Sweeps(grouped, k + 1)}

\* Every list smartShuffle can return for `list` when it does not throw:
\* sort(() => Math.random() - 0.5) may leave a group, and the category list of a
\* sweep, in any order.
smartShuffle(list) ==
    LET cats == Range(CategoryList(list))
        orders == UNION {PermSeqs(CategoryGroup(list, c)) : c \in cats}
        groupings == {g \in [cats -> orders] :
                        \A c \in cats : g[c] \in PermSeqs(CategoryGroup(list, c))}
    IN UNION {Sweeps(g, 1) : g \in groupings}

\* ------------------------------------------------------ fetchQuestions (rows)
\* The index i of the parse loop at data row r (1-based): the header, when the
\* text has one, is line 0.
LineIndex(hasHeader, r) == IF hasHeader THEN r ELSE r - 1

RowQuestion(rows, r) == Question(rows[r][1], r, rows[r][2])

\* The data rows pushed to `questions`: version 2 keeps the row at i === 1 aside.
ParsedRows(v, hasHeader, rows) ==
    IF v = 1 THEN DOMAIN rows
    ELSE {r \in DOMAIN rows : LineIndex(hasHeader, r) # 1}

RECURSIVE RowsToQuestions(_, _, _)
RowsToQuestions(rows, keep, n) ==
    IF n = 0 THEN <<>>
    ELSE LET init == RowsToQuestions(rows, keep, n - 1)
         IN IF n \in keep THEN Append(init, RowQuestion(rows, n)) ELSE init

ParsedQuestions(v, hasHeader, rows) ==
    RowsToQuestions(rows, ParsedRows(v, hasHeader, rows), Len(rows))

\* introContent at the end of the parse loop.
ParsedIntro(v, hasHeader, rows) ==
    LET at == {r \in DOMAIN rows : LineIndex(hasHeader, r) = 1}
    IN IF v = 2 /\ at # {} THEN RowQuestion(rows, CHOOSE r \in at : TRUE) ELSE Null

\* Array.from(new Set(questions.map(q => q.category))), in version 1 without the
\* reserved category.
ExtractCategories(v, parsed) ==
    LET all == Unique(CategoryList(parsed))
    IN IF v = 1 THEN SelectSeq(all, LAMBDA c : c # IntroCategory) ELSE all

\* A variant that numbers the categories from 1.
ColorMapFromOne(categories) ==
    [c \in Range(categories) |-> CHOOSE i \in DOMAIN categories : categories[i] = c]

\* categories.forEach((category, index) => colorMap[category] = index)
ColorMap(categories) ==
    [c \in Range(categories) |->
        (CHOOSE i \in DOMAIN categories : categories[i] = c) - 1]

\* ------------------------------------------------- filter/projection effect
\* Variant of IsFiltered that counts a full selection as a filter.
IsFilteredLoose(selected, available) == Len(selected) <= Len(available)

IsFiltered(selected, available) == Len(selected) < Len(available)

\* Variant of FilteredQuestions that forgets the category filter.
FilteredQuestionsAnyCategory(v, all, selected, mixed) ==
    LET byCategory == SelectSeq(all, LAMBDA q : v = 1 => q.category # IntroCategory)
    IN IF ~mixed THEN SelectSeq(byCategory, LAMBDA q : q.depth = "light")
       ELSE byCategory

\* filteredQuestions
FilteredQuestions(v, all, selected, mixed) ==
    LET byCategory == SelectSeq(all, LAMBDA q :
                          /\ Includes(selected, q.category)
                          /\ (v = 1 => q.category # IntroCategory))
    IN IF ~mixed THEN SelectSeq(byCategory, LAMBDA q : q.depth = "light")
       ELSE byCategory

QuestionSlide(q) == [type |-> "question", question |-> q, isIntroSlide |-> FALSE]

\* Variant of IntroSlides that pushes the intro slide in light mode too.
IntroSlidesAnyDepth(v, all, selected, available, mixed, intro) ==
    LET introQuestions == SelectSeq(all, LAMBDA q : q.category = IntroCategory)
    IN IF v = 1
       THEN IF ~IsFiltered(selected, available) /\ Len(introQuestions) > 0
            THEN <<[type |-> "question", question |-> introQuestions[1],
                    isIntroSlide |-> TRUE]>>
            ELSE <<>>
       ELSE IF ~IsFiltered(selected, available) /\ intro # Null
            THEN <<[type |-> "intro", question |-> intro, isIntroSlide |-> FALSE]>>
            ELSE <<>>

\* The slide pushed first, as a list of zero or one slide.
IntroSlides(v, all, selected, available, mixed, intro) ==
    LET introQuestions == SelectSeq(all, LAMBDA q : q.category = IntroCategory)
    IN IF v = 1
       THEN IF ~IsFiltered(selected, available) /\ mixed /\ Len(introQuestions) > 0
            THEN <<[type |-> "question", question |-> introQuestions[1],
                    isIntroSlide |-> TRUE]>>
            ELSE <<>>
       ELSE IF ~IsFiltered(selected, available) /\ mixed /\ intro # Null
            THEN <<[type |-> "intro", question |-> intro, isIntroSlide |-> FALSE]>>
            ELSE <<>>

\* Variant of ProjectSlides that pushes the intro slide after the questions.
ProjectSlidesIntroLast(v, all, selected, available, mixed, intro) ==
    LET filtered == FilteredQuestions(v, all, selected, mixed)
    IN [i \in DOMAIN filtered |-> QuestionSlide(filtered[i])]
       \o IntroSlides(v, all, selected, available, mixed, intro)

\* The local `slides` the effect hands to setSlides.
ProjectSlides(v, all, selected, available, mixed, intro) ==
    LET filtered == FilteredQuestions(v, all, selected, mixed)
    IN IntroSlides(v, all, selected, available, mixed, intro)
       \o [i \in DOMAIN filtered |-> QuestionSlide(filtered[i])]

\* Variant of ResetIndex with the reset forgotten.
ResetIndexKept(previous) == previous

\* The index the effect hands to setCurrentIndex.
ResetIndex(previous) == 0

\* Variant of FilterEffect that patches the previous deck when the selection
\* shrinks, instead of projecting anew.
FilterEffectPatches ==
    /\ questions' = FilteredQuestions(variant, allQuestions', selectedCategories',
                                      isMixedMode')
    /\ slides' = IF Len(selectedCategories') < Len(selectedCategories)
                 THEN SelectSeq(slides, LAMBDA s :
                          Includes(selectedCategories', s.question.category))
                 ELSE ProjectSlides(variant, allQuestions', selectedCategories',
                                    availableCategories', isMixedMode', introSlide')
    /\ currentIndex' = ResetIndex(currentIndex)

\* The effect, run after a render that changed one of its dependencies; it reads
\* the state of that render.
FilterEffect ==
    /\ questions' = FilteredQuestions(variant, allQuestions', selectedCategories',
                                      isMixedMode')
    /\ slides' = ProjectSlides(variant, allQuestions', selectedCategories',
                               availableCategories', isMixedMode', introSlide')
    /\ currentIndex' = ResetIndex(currentIndex)

\* The keydown effect has [currentIndex] as dependencies: the listener (and the
\* slides its nextQuestion closes over) is replaced only by a render in which
\* currentIndex differs from the previous render's.
KeydownEffect ==
    keySlidesLength' = IF currentIndex' # currentIndex THEN Len(slides')
                       ELSE keySlidesLength

\* The render after the step: slides[currentIndex].question throws when the card
\* is to be shown and slides[currentIndex] is undefined.
RenderThrows(isLoading, deck, index) ==
    ~isLoading /\ Len(deck) > 0 /\ index \notin 0..(Len(deck) - 1)

Render == renderError' = RenderThrows(loading', slides', currentIndex')

\* -------------------------------------------------------------------- Init
\* The state after the first render and its effects: the filter effect has run on
\* the empty record set, the keydown listener of that render is registered, and
\* the mount effect has called fetchQuestions, which has issued the request for
\* the spreadsheet and is suspended at its first await.
Init ==
    /\ variant \in Variants
    /\ currentIndex = 0
    /\ animationClass = NoAnimation
    /\ questions = <<>>
    /\ allQuestions = <<>>
    /\ introSlide = Null
    /\ slides = <<>>
    /\ loading = TRUE
    /\ categorySelectorOpen = FALSE
    /\ selectedCategories = <<>>
    /\ availableCategories = <<>>
    /\ isMixedMode = TRUE
    /\ categoryColorMap = <<>>
    /\ tempSelection = <<>>
    /\ tempIsSelected = TRUE
    /\ timers = <<>>
    /\ keySlidesLength = 0
    /\ renderError = FALSE
    /\ tripPhase = "idle"
    /\ tripStart = 0
    /\ shuffleInput = <<>>
    /\ shuffleOutput = [kind |-> "idle", list |-> <<>>]
    /\ parsePc = "idle"
    /\ parseText = <<>>
    /\ parseLines = <<>>
    /\ parseI = 0
    /\ scanLine = <<>>
    /\ scanJ = 0
    /\ scanCurrent = <<>>
    /\ scanInQuotes = FALSE
    /\ scanValues = <<>>
    /\ parseQuestions = <<>>
    /\ parseIntro = NoIntro
    /\ fetchPc = "primary"
    /\ requests = <<"sheet">>
    /\ primaryResult = "pending"
    /\ secondaryResult = "pending"
    /\ fetchOutcome = "pending"
    /\ fetchPromise = "pending"
    /\ startX = 0
    /\ startY = 0
    /\ isDragging = FALSE
    /\ docCommand = [dragging |-> FALSE, startX |-> 0, startY |-> 0, clientX |-> 0,
                     clientY |-> 0, called |-> "none"]   \* no call yet
    /\ touchStart = -1
    /\ touchEnd = -1
    /\ mouseStart = -1
    /\ mouseEnd = -1
    /\ cardIsDragging = FALSE
    /\ pointer = [phase |-> "up", kind |-> "none", x |-> 0, pressX |-> 0,
                  onCard |-> FALSE, moved |-> FALSE]
    /\ cardCommand = [gesture |-> "none", dragging |-> FALSE, start |-> -1, end |-> -1,
                      called |-> "none", clickZone |-> "none", clickCalled |-> "none"]
    /\ issued = 0
    /\ staleSettles = 0
    /\ navigated = FALSE

\* ---------------------------------------------------------- fetchQuestions
\* The fetch ends with text whose data rows are `rows`: the state set when
\* questions.length > 0, then setLoading(false), then the effects of the render.
FetchQuestionsLoaded(hasHeader, rows) ==
    LET parsed == ParsedQuestions(variant, hasHeader, rows)
        categories == ExtractCategories(variant, parsed)
    IN /\ loading
       /\ ~renderError
       /\ Len(parsed) > 0
       /\ ~ShuffleThrows(parsed)
       /\ \E shuffledQuestions \in smartShuffle(parsed) :
             allQuestions' = shuffledQuestions
       /\ introSlide' = ParsedIntro(variant, hasHeader, rows)
       /\ categoryColorMap' = ColorMap(categories)
       /\ availableCategories' = categories
       /\ selectedCategories' = categories
       /\ loading' = FALSE
       /\ tempSelection' = categories
       /\ tempIsSelected' = TRUE
       /\ UNCHANGED <<variant, isMixedMode, categorySelectorOpen, animationClass, timers>>
       /\ FilterEffect
       /\ KeydownEffect
       /\ Render

\* A variant without the finally block: loading stays as it is.
FetchQuestionsEmptyStaysLoading ==
    /\ loading
    /\ ~renderError
    /\ UNCHANGED <<variant, currentIndex, animationClass, questions, allQuestions,
                   introSlide, slides, loading, categorySelectorOpen, selectedCategories,
                   availableCategories, isMixedMode, categoryColorMap, tempSelection,
                   tempIsSelected, timers, keySlidesLength>>
    /\ Render

\* The fetch ends with no question parsed, both requests failed or smartShuffle
\* threw: only the finally block's setLoading(false) runs.
FetchQuestionsEmpty ==
    /\ loading
    /\ ~renderError
    /\ loading' = FALSE
    /\ UNCHANGED <<variant, currentIndex, animationClass, questions, allQuestions,
                   introSlide, slides, categorySelectorOpen, selectedCategories,
                   availableCategories, isMixedMode, categoryColorMap, tempSelection,
                   tempIsSelected, timers, keySlidesLength>>
    /\ Render

\* ------------------------------------------------------------- navigation
SettleTimer(dir) == [kind |-> "settle", dir |-> dir]
ClearTimer == [kind |-> "clear", dir |-> "none"]

\* The guards of nextQuestion and prevQuestion, on the currentIndex and the
\* slides.length the called closure holds.
NextGuard(index, length) == index < length - 1
PrevGuard(index) == index > 0

\* A variant that ignores the call while a timer is pending.
nextQuestionUnlessPending(index, length) ==
    IF NextGuard(index, length) /\ timers = <<>>
    THEN /\ animationClass' = SlideOutLeft
         /\ timers' = Append(timers, SettleTimer("next"))
         /\ UNCHANGED <<dataVars, currentIndex, keySlidesLength, renderError>>
    ELSE UNCHANGED appVars

\* nextQuestion as the closure that holds (index, length) runs it.
nextQuestion(index, length) ==
    IF NextGuard(index, length)
    THEN /\ Len(timers) < MaxPending
         /\ animationClass' = SlideOutLeft
         /\ timers' = Append(timers, SettleTimer("next"))
         /\ UNCHANGED <<dataVars, currentIndex, keySlidesLength, renderError>>
    ELSE UNCHANGED appVars

\* prevQuestion as the closure that holds index runs it.
prevQuestion(index) ==
    IF PrevGuard(index)
    THEN /\ Len(timers) < MaxPending
         /\ animationClass' = SlideOutRight
         /\ timers' = Append(timers, SettleTimer("prev"))
         /\ UNCHANGED <<dataVars, currentIndex, keySlidesLength, renderError>>
    ELSE UNCHANGED appVars

\* The card is on screen: it was rendered from the current state.
CardShown == ~loading /\ ~renderError /\ Len(slides) > 0

\* QuizCard calls onSwipeLeft (a left swipe or drag, a click on the right zone):
\* the nextQuestion of the latest render.
CardSwipeLeft == CardShown /\ nextQuestion(currentIndex, Len(slides))

\* QuizCard calls onSwipeRight (a right swipe or drag, a click on the left zone).
CardSwipeRight == CardShown /\ prevQuestion(currentIndex)

\* handleKeyPress of the registered listener: its closures hold the currentIndex
\* of the current render and the slides of the render that registered it.
KeyArrowRight == ~renderError /\ nextQuestion(currentIndex, keySlidesLength)
KeyArrowLeft == ~renderError /\ prevQuestion(currentIndex)

\* A timer can fire when every timer that is due before it has fired: a settle
\* timer (300 ms) after the settle timers set before it, a clear timer (500 ms)
\* after every timer set before it.
CanFire(k) ==
    /\ k \in DOMAIN timers
    /\ IF timers[k].kind = "settle"
       THEN \A j \in 1..(k - 1) : timers[j].kind = "clear"
       ELSE k = 1

Without(s, k) == SubSeq(s, 1, k - 1) \o SubSeq(s, k + 1, Len(s))

\* Variant of SettleIndex that skips a slide going forward.
SettleIndexSkips(prev, dir) == IF dir = "next" THEN prev + 2 ELSE prev - 1

\* Variant of SettleIndex that does not move going backward.
SettleIndexRetreatStays(prev, dir) == IF dir = "next" THEN prev + 1 ELSE prev

\* setCurrentIndex(prev => prev + 1) or (prev => prev - 1)
SettleIndex(prev, dir) == IF dir = "next" THEN prev + 1 ELSE prev - 1

SettleAnimation(dir) == IF dir = "next" THEN SlideInRight ELSE SlideInLeft

\* The 300 ms callback of nextQuestion or prevQuestion.
SettleTimerFires(k) ==
    /\ ~renderError
    /\ CanFire(k)
    /\ timers[k].kind = "settle"
    /\ currentIndex' = SettleIndex(currentIndex, timers[k].dir)
    /\ animationClass' = SettleAnimation(timers[k].dir)
    /\ timers' = Append(Without(timers, k), ClearTimer)
    /\ UNCHANGED dataVars
    /\ KeydownEffect
    /\ Render

\* A variant of the 500 ms callback that leaves the marker as it is.
ClearTimerFiresKeepsMarker ==
    /\ ~renderError
    /\ CanFire(1)
    /\ timers[1].kind = "clear"
    /\ timers' = Tail(timers)
    /\ UNCHANGED <<dataVars, currentIndex, keySlidesLength, renderError, animationClass>>

\* The 500 ms callback: setAnimationClass('').
ClearTimerFires ==
    /\ ~renderError
    /\ CanFire(1)
    /\ timers[1].kind = "clear"
    /\ animationClass' = NoAnimation
    /\ timers' = Tail(timers)
    /\ UNCHANGED <<dataVars, currentIndex, keySlidesLength, renderError>>

\* ------------------------------------------------------------ filter state
\* A variant in which the switch also turns the list of records around.
SetIsMixedModeReorders(checked) ==
    /\ ~renderError
    /\ checked # isMixedMode
    /\ isMixedMode' = checked
    /\ allQuestions' = [i \in DOMAIN allQuestions |->
                           allQuestions[Len(allQuestions) + 1 - i]]
    /\ UNCHANGED <<variant, introSlide, loading, categorySelectorOpen,
                   selectedCategories, availableCategories, categoryColorMap,
                   tempSelection, tempIsSelected, animationClass, timers>>
    /\ FilterEffect
    /\ KeydownEffect
    /\ Render

\* setIsMixedMode(checked) from the switch or the light/deep labels; setting the
\* value the state already has renders nothing.
SetIsMixedMode(checked) ==
    /\ ~renderError
    /\ checked # isMixedMode
    /\ isMixedMode' = checked
    /\ UNCHANGED <<variant, allQuestions, introSlide, loading, categorySelectorOpen,
                   selectedCategories, availableCategories, categoryColorMap,
                   tempSelection, tempIsSelected, animationClass, timers>>
    /\ FilterEffect
    /\ KeydownEffect
    /\ Render

\* "Kategorien waehlen": setCategorySelectorOpen(true)
OpenCategorySelector ==
    /\ ~renderError
    /\ ~categorySelectorOpen
    /\ categorySelectorOpen' = TRUE
    /\ UNCHANGED <<variant, currentIndex, animationClass, questions, allQuestions,
                   introSlide, slides, loading, selectedCategories,
                   availableCategories, isMixedMode, categoryColorMap, tempSelection,
                   tempIsSelected, timers, keySlidesLength, renderError>>

\* A variant that appends the category whether or not prev includes it.
ToggleCategoryAppends(prev, category) == Append(prev, category)

\* prev.includes(category) ? prev.filter(c => c !== category) : [...prev, category]
ToggleCategory(prev, category) ==
    IF Includes(prev, category)
    THEN SelectSeq(prev, LAMBDA c : c # category)
    ELSE Append(prev, category)

\* A variant of the click that applies the toggled selection at once.
HandleCategoryToggleApplies(category) ==
    /\ ~renderError
    /\ categorySelectorOpen
    /\ Includes(availableCategories, category)
    /\ tempSelection' = ToggleCategory(tempSelection, category)
    /\ tempIsSelected' = TRUE
    /\ selectedCategories' = tempSelection'
    /\ UNCHANGED <<variant, allQuestions, introSlide, loading, categorySelectorOpen,
                   availableCategories, isMixedMode, categoryColorMap,
                   animationClass, timers>>
    /\ FilterEffect
    /\ KeydownEffect
    /\ Render

\* A click on a category row or on its check circle in the open dialog.
HandleCategoryToggle(category) ==
    /\ ~renderError
    /\ categorySelectorOpen
    /\ Includes(availableCategories, category)
    /\ tempSelection' = ToggleCategory(tempSelection, category)
    /\ tempIsSelected' = FALSE
    /\ UNCHANGED <<variant, currentIndex, animationClass, questions, allQuestions,
                   introSlide, slides, loading, categorySelectorOpen,
                   selectedCategories, availableCategories, isMixedMode,
                   categoryColorMap, timers, keySlidesLength, renderError>>

\* handleClose: onCategoriesChange(tempSelection); onOpenChange(false).
\* setSelectedCategories with the array the state already holds renders nothing;
\* with another array the filter effect runs and the dialog's effect takes the
\* new selectedCategories as tempSelection.
HandleClose ==
    /\ ~renderError
    /\ categorySelectorOpen
    /\ categorySelectorOpen' = FALSE
    /\ IF tempIsSelected
       THEN UNCHANGED <<variant, currentIndex, animationClass, questions, allQuestions,
                        introSlide, slides, loading, selectedCategories,
                        availableCategories, isMixedMode, categoryColorMap,
                        tempSelection, tempIsSelected, timers, keySlidesLength,
                        renderError>>
       ELSE /\ selectedCategories' = tempSelection
            /\ tempSelection' = tempSelection
            /\ tempIsSelected' = TRUE
            /\ UNCHANGED <<variant, allQuestions, introSlide, loading,
                           availableCategories, isMixedMode, categoryColorMap,
                           animationClass, timers>>
            /\ FilterEffect
            /\ KeydownEffect
            /\ Render

\* -------------------------------------------------------------------- Next
\* The fetch ends with the first rows of a sample sheet.
FetchSheet ==
    /\ loading
    /\ \E input \in SheetInputs : FetchQuestionsLoaded(input.hasHeader, input.rows)

\* The fetch ends with any list of data rows.
FetchRows ==
    /\ loading
    /\ \E input \in FetchInputs(variant) :
         FetchQuestionsLoaded(input.hasHeader, input.rows)

Next ==
    \/ FetchSheet /\ UNCHANGED <<tripVars, auxVars>>
    \/ FetchQuestionsEmpty /\ UNCHANGED <<tripVars, auxVars>>
    \/ CardSwipeLeft /\ UNCHANGED <<tripVars, auxVars>>
    \/ CardSwipeRight /\ UNCHANGED <<tripVars, auxVars>>
    \/ KeyArrowRight /\ UNCHANGED <<tripVars, auxVars>>
    \/ KeyArrowLeft /\ UNCHANGED <<tripVars, auxVars>>
    \/ (\E k \in 1..MaxPending : SettleTimerFires(k)) /\ UNCHANGED <<tripVars, auxVars>>
    \/ ClearTimerFires /\ UNCHANGED <<tripVars, auxVars>>
    \/ (\E checked \in BOOLEAN : SetIsMixedMode(checked)) /\ UNCHANGED <<tripVars, auxVars>>
    \/ OpenCategorySelector /\ UNCHANGED <<tripVars, auxVars>>
    \/ (\E category \in Categories \cup {IntroCategory} :
            HandleCategoryToggle(category)) /\ UNCHANGED <<tripVars, auxVars>>
    \/ HandleClose /\ UNCHANGED <<tripVars, auxVars>>

Spec == Init /\ [][Next]_vars

\* The filter/projection engine alone, over every list of data rows: the fetch
\* and the operations that change the filter state.
NextProject ==
    \/ FetchRows /\ UNCHANGED <<tripVars, auxVars>>
    \/ FetchQuestionsEmpty /\ UNCHANGED <<tripVars, auxVars>>
    \/ (\E checked \in BOOLEAN : SetIsMixedMode(checked)) /\ UNCHANGED <<tripVars, auxVars>>
    \/ OpenCategorySelector /\ UNCHANGED <<tripVars, auxVars>>
    \/ (\E category \in Categories \cup {IntroCategory} :
            HandleCategoryToggle(category)) /\ UNCHANGED <<tripVars, auxVars>>
    \/ HandleClose /\ UNCHANGED <<tripVars, auxVars>>

SpecProject == Init /\ [][NextProject]_vars

\* ------------------------------------------------- smartShuffle on its own
\* The categories of the lists shuffled on their own, one of them a name
\* inherited from Object.prototype.
ShuffleCategories == {"A", "B", "constructor"}

\* Every list of at most MaxShuffle questions of these categories.
ShuffleInputs ==
    UNION {{[i \in 1..n |-> Question(cs[i], i, "deep")] :
               cs \in [1..n -> ShuffleCategories]} : n \in 0..MaxShuffle}

ShuffleIdle == [kind |-> "idle", list |-> <<>>]

\* smartShuffle(list) is called and returns a list or throws.
SmartShuffleCalled(list) ==
    /\ shuffleOutput = ShuffleIdle
    /\ shuffleInput' = list
    /\ IF ShuffleThrows(list)
       THEN shuffleOutput' = [kind |-> "threw", list |-> <<>>]
       ELSE \E result \in smartShuffle(list) :
               shuffleOutput' = [kind |-> "returned", list |-> result]

\* The caller is done with the outcome.
SmartShuffleDone ==
    /\ shuffleOutput # ShuffleIdle
    /\ shuffleInput' = <<>>
    /\ shuffleOutput' = ShuffleIdle

NextShuffle ==
    \/ (\E list \in ShuffleInputs : SmartShuffleCalled(list))
          /\ UNCHANGED <<appVars, tripVars, parseVars, fetchVars, swipeVars, cardVars, staleVars>>
    \/ SmartShuffleDone /\
        UNCHANGED <<appVars, tripVars, parseVars, fetchVars, swipeVars, cardVars, staleVars>>

SpecShuffle == Init /\ [][NextShuffle]_vars

\* --------------------------------------------------- parse loop on its own
\* A text is the list of its lines, a line or a field the list of its
\* characters.
Quote == "\""
Comma == ","

\* The characters String.prototype.trim removes (those the texts here use).
Whitespace == {" ", "\r", "\t"}

\* String.prototype.trim
RECURSIVE Trim(_)
Trim(str) ==
    IF str = <<>> THEN <<>>
    ELSE IF Head(str) \in Whitespace THEN Trim(Tail(str))
    ELSE IF str[Len(str)] \in Whitespace THEN Trim(SubSeq(str, 1, Len(str) - 1))
    ELSE str

\* String.prototype.toLowerCase, on the letters the texts here use.
LowerCase(char) ==
    CASE char = "C" -> "c"
      [] char = "Q" -> "q"
      [] char = "L" -> "l"
      [] char = "I" -> "i"
      [] char = "G" -> "g"
      [] char = "H" -> "h"
      [] char = "T" -> "t"
      [] OTHER -> char

ToLowerCase(str) == [k \in DOMAIN str |-> LowerCase(str[k])]

\* String.prototype.includes
IncludesText(str, word) ==
    \E k \in 0..(Len(str) - Len(word)) : SubSeq(str, k + 1, k + Len(word)) = word

Categor == <<"c", "a", "t", "e", "g", "o", "r">>
QuestionWord == <<"q", "u", "e", "s", "t", "i", "o", "n">>
Light == <<"l", "i", "g", "h", "t">>

\* Which branch of the scanner the character at st.j takes.
CharCase(st, line) ==
    LET char == line[st.j + 1]
    IN IF char = Quote
       THEN IF st.inQuotes /\ st.j + 2 <= Len(line) /\ line[st.j + 2] = Quote
            THEN "escaped"
            ELSE "quote"
       ELSE IF char = Comma /\ ~st.inQuotes THEN "separator"
       ELSE "other"

\* Variant of ScanChar that ends the field at every comma.
ScanCharSplitsInQuotes(st, line) ==
    LET char == line[st.j + 1]
    IN IF char = Comma
       THEN [st EXCEPT !.j = st.j + 1, !.values = Append(st.values, Trim(st.current)),
                       !.current = <<>>]
       ELSE IF char = Quote
       THEN [st EXCEPT !.j = st.j + 1, !.inQuotes = ~st.inQuotes]
       ELSE [st EXCEPT !.j = st.j + 1, !.current = Append(st.current, char)]

\* Variant of ScanChar that takes a doubled quote as two toggles.
ScanCharNoEscape(st, line) ==
    LET char == line[st.j + 1]
    IN IF char = Quote
       THEN [st EXCEPT !.j = st.j + 1, !.inQuotes = ~st.inQuotes]
       ELSE IF char = Comma /\ ~st.inQuotes
       THEN [st EXCEPT !.j = st.j + 1, !.values = Append(st.values, Trim(st.current)),
                       !.current = <<>>]
       ELSE [st EXCEPT !.j = st.j + 1, !.current = Append(st.current, char)]

\* One pass of the loop over the characters, j++ included.
ScanChar(st, line) ==
    LET char == line[st.j + 1]
    IN CASE CharCase(st, line) = "escaped" ->
              [st EXCEPT !.current = Append(st.current, Quote), !.j = st.j + 2]
         [] CharCase(st, line) = "quote" ->
              [st EXCEPT !.inQuotes = ~st.inQuotes, !.j = st.j + 1]
         [] CharCase(st, line) = "separator" ->
              [st EXCEPT !.values = Append(st.values, Trim(st.current)),
                         !.current = <<>>, !.j = st.j + 1]
         [] OTHER ->
              [st EXCEPT !.current = Append(st.current, char), !.j = st.j + 1]

\* values of a whole line: the loop over its characters from state st on, then
\* the last field.
RECURSIVE ScanFrom(_, _)
ScanFrom(st, line) ==
    IF st.j >= Len(line) THEN Append(st.values, Trim(st.current))
    ELSE ScanFrom(ScanChar(st, line), line)

ScanLine(line) ==
    ScanFrom([j |-> 0, current |-> <<>>, inQuotes |-> FALSE, values |-> <<>>], line)

ScanState == [j |-> scanJ, current |-> scanCurrent, inQuotes |-> scanInQuotes,
              values |-> scanValues]

\* values after the last field was added.
LineValues == Append(scanValues, Trim(scanCurrent))

\* The header test: values[0] always exists, values[1] may be undefined.
IsHeader(i, values) ==
    /\ i = 0
    /\ \/ IncludesText(ToLowerCase(values[1]), Categor)
       \/ Len(values) >= 2 /\ IncludesText(ToLowerCase(values[2]), QuestionWord)

\* The test before a Question is built: two populated fields in version 1, three
\* in version 2.
WellFormed(v, values) ==
    IF v = 1
    THEN Len(values) >= 2 /\ values[1] # <<>> /\ values[2] # <<>>
    ELSE Len(values) >= 3 /\ values[1] # <<>> /\ values[2] # <<>> /\ values[3] # <<>>

\* values[2] && values[2].toLowerCase().includes('light') ? 'light' : 'deep'
DepthOf(values) ==
    IF Len(values) >= 3 /\ values[3] # <<>> /\ IncludesText(ToLowerCase(values[3]), Light)
    THEN "light" ELSE "deep"

LineQuestion(values) == Question(values[1], values[2], DepthOf(values))

\* What the loop does with line i once it is scanned.
LineOutcome(v, i, values) ==
    IF IsHeader(i, values) THEN "header"
    ELSE IF ~WellFormed(v, values) THEN "dropped"
    ELSE IF v = 2 /\ i = 1 THEN "intro"
    ELSE "record"

\* The lines of arbitrary characters, one per text.
ScanAlphabet == {"x", Comma, Quote, " "}
ShortLines == UNION {[1..n -> ScanAlphabet] : n \in 0..MaxLineLen}

\* Sample lines: a header, the line  cat,"a, b",deep , a light row, a row of two
\* fields, a row without text, a blank line, a row with doubled quotes and a
\* trailing carriage return.
HeaderLine ==
    <<"C", "a", "t", "e", "g", "o", "r", "y", ",", "Q", "u", "e", "s", "t", "i", "o", "n">>
ExampleLine ==
    <<"c", "a", "t", ",", "\"", "a", ",", " ", "b", "\"", ",", "d", "e", "e", "p">>
LightLine == <<"x", ",", "y", ",", "L", "i", "g", "h", "t">>
TwoFieldLine == <<"x", ",", "y">>
NoTextLine == <<"x", ",", ",", "l", "i", "g", "h", "t">>
BlankLine == <<" ">>
DoubledQuoteLine == <<"y", ",", "\"", "\"", "\"", "q", "\"", "\"", "\"", "\r">>
SampleLines ==
    {HeaderLine, ExampleLine, LightLine, TwoFieldLine, NoTextLine, BlankLine,
     DoubledQuoteLine}

\* The texts parsed: one arbitrary short line, or some sample lines.
ParseTexts ==
    {<<line>> : line \in ShortLines}
    \cup UNION {[1..n -> SampleLines] : n \in 0..MaxLines}

\* The scanner at the start of line i of `lines`.
StartLine(lines, i) ==
    IF i < Len(lines)
    THEN /\ parsePc' = "scan"
         /\ scanLine' = Trim(lines[i + 1])
    ELSE /\ parsePc' = "done"
         /\ scanLine' = <<>>

\* csvText.split('\n').filter(line => line.trim()), and the loop reaches its
\* first line.
ParseStart(text) ==
    /\ parsePc = "idle"
    /\ parseText' = text
    /\ parseLines' = SelectSeq(text, LAMBDA line : Trim(line) # <<>>)
    /\ parseI' = 0
    /\ StartLine(parseLines', 0)
    /\ scanJ' = 0
    /\ scanCurrent' = <<>>
    /\ scanInQuotes' = FALSE
    /\ scanValues' = <<>>
    /\ parseQuestions' = <<>>
    /\ parseIntro' = NoIntro

\* One character of the line is scanned.
ScanNext(case) ==
    /\ parsePc = "scan"
    /\ scanJ < Len(scanLine)
    /\ CharCase(ScanState, scanLine) = case
    /\ LET st == ScanChar(ScanState, scanLine)
       IN /\ scanJ' = st.j
          /\ scanCurrent' = st.current
          /\ scanInQuotes' = st.inQuotes
          /\ scanValues' = st.values
    /\ UNCHANGED <<parsePc, parseText, parseLines, parseI, scanLine, parseQuestions,
                   parseIntro>>

ScanEscapedQuote == ScanNext("escaped")
ScanQuote == ScanNext("quote")
ScanSeparator == ScanNext("separator")
ScanOther == ScanNext("other")

\* The line is scanned: the last field is added, the line is skipped as header,
\* dropped, kept as intro or pushed as Question, and the loop goes to the next
\* line.
LineEnd(outcome) ==
    /\ parsePc = "scan"
    /\ scanJ >= Len(scanLine)
    /\ LineOutcome(variant, parseI, LineValues) = outcome
    /\ parseQuestions' = IF outcome = "record"
                         THEN Append(parseQuestions, LineQuestion(LineValues))
                         ELSE parseQuestions
    /\ parseIntro' = IF outcome = "intro" THEN LineQuestion(LineValues) ELSE parseIntro
    /\ parseI' = parseI + 1
    /\ StartLine(parseLines, parseI + 1)
    /\ scanJ' = 0
    /\ scanCurrent' = <<>>
    /\ scanInQuotes' = FALSE
    /\ scanValues' = IF parseI + 1 < Len(parseLines) THEN <<>> ELSE LineValues
    /\ UNCHANGED <<parseText, parseLines>>

LineIsHeader == LineEnd("header")
LineIsDropped == LineEnd("dropped")
LineIsIntro == LineEnd("intro")
LineIsRecord == LineEnd("record")

\* fetchQuestions has a text to parse.
ParseBegins ==
    /\ parsePc = "idle"
    /\ \E text \in ParseTexts : ParseStart(text)

NextParse ==
    \/ ParseBegins
          /\
              UNCHANGED <<appVars, tripVars, shuffleVars, fetchVars, swipeVars, cardVars, staleVars>>
    \/ ScanEscapedQuote /\
        UNCHANGED <<appVars, tripVars, shuffleVars, fetchVars, swipeVars, cardVars, staleVars>>
    \/ ScanQuote /\
        UNCHANGED <<appVars, tripVars, shuffleVars, fetchVars, swipeVars, cardVars, staleVars>>
    \/ ScanSeparator /\
        UNCHANGED <<appVars, tripVars, shuffleVars, fetchVars, swipeVars, cardVars, staleVars>>
    \/ ScanOther /\
        UNCHANGED <<appVars, tripVars, shuffleVars, fetchVars, swipeVars, cardVars, staleVars>>
    \/ LineIsHeader /\
        UNCHANGED <<appVars, tripVars, shuffleVars, fetchVars, swipeVars, cardVars, staleVars>>
    \/ LineIsDropped /\
        UNCHANGED <<appVars, tripVars, shuffleVars, fetchVars, swipeVars, cardVars, staleVars>>
    \/ LineIsIntro /\
        UNCHANGED <<appVars, tripVars, shuffleVars, fetchVars, swipeVars, cardVars, staleVars>>
    \/ LineIsRecord /\
        UNCHANGED <<appVars, tripVars, shuffleVars, fetchVars, swipeVars, cardVars, staleVars>>

SpecParse == Init /\ [][NextParse]_vars

\* ------------------------------------------- the requests of fetchQuestions
\* How a request can end: the fetch promise rejects ("network"), the response
\* is not ok ("status"), response.text() rejects ("body"), or the text arrives.
ResponseResults == {"ok", "network", "status"}
FailureResults == {"network", "status", "body"}

\* A variant whose inner catch is reached by a rejected fetch only.
NeedsFallbackOnRejectOnly(result) == result = "network"

\* The inner try block throws, and its catch block runs, unless the response is
\* ok.
NeedsFallback(result) == result # "ok"

\* A sheet with a row whose category is a name inherited from Object.prototype.
PrototypeSheet == <<<<"constructor", "deep">>, <<"A", "light">>>>

\* The texts a request can deliver.
FetchTexts == SheetInputs \cup {[hasHeader |-> FALSE, rows |-> PrototypeSheet]}

\* The catch block of the inner try: the local file is requested.
RequestLocal ==
    /\ requests' = Append(requests, "local")
    /\ fetchPc' = "secondary"

\* The request for the spreadsheet ends: fetchQuestions goes on to await
\* response.text(), or to request the local file.
PrimaryResponds(result) ==
    /\ fetchPc = "primary"
    /\ primaryResult' = result
    /\ IF NeedsFallback(result)
       THEN RequestLocal
       ELSE fetchPc' = "primaryBody" /\ UNCHANGED requests
    /\ UNCHANGED <<secondaryResult, fetchOutcome, fetchPromise>>

\* response.text() of the spreadsheet rejects.
PrimaryBodyFails ==
    /\ fetchPc = "primaryBody"
    /\ primaryResult' = "body"
    /\ RequestLocal
    /\ UNCHANGED <<secondaryResult, fetchOutcome, fetchPromise>>

\* The response for the local file is ok: fetchQuestions awaits its text.
SecondaryOk ==
    /\ fetchPc = "secondary"
    /\ secondaryResult' = "ok"
    /\ fetchPc' = "secondaryBody"
    /\ UNCHANGED <<requests, primaryResult, fetchOutcome, fetchPromise>>

\* The request for the local file fails, or its text does: the error reaches the
\* outer catch, which logs it, and the finally block runs.
SecondaryFails(result) ==
    /\ \/ fetchPc = "secondary" /\ result \in {"network", "status"}
       \/ fetchPc = "secondaryBody" /\ result = "body"
    /\ secondaryResult' = result
    /\ fetchPc' = "done"
    /\ fetchOutcome' = "failed"
    /\ fetchPromise' = "fulfilled"
    /\ FetchQuestionsEmpty
    /\ UNCHANGED <<requests, primaryResult>>

\* A text has arrived and is parsed.
TextArrives(outcome) ==
    /\ fetchPc \in {"primaryBody", "secondaryBody"}
    /\ fetchPc' = "done"
    /\ fetchOutcome' = outcome
    /\ fetchPromise' = "fulfilled"
    /\ UNCHANGED <<requests, primaryResult, secondaryResult>>

\* questions.length > 0 and smartShuffle returns.
FetchLoads ==
    /\ TextArrives("loaded")
    /\ \E input \in FetchTexts : FetchQuestionsLoaded(input.hasHeader, input.rows)

\* questions.length is 0.
FetchParsesNothing ==
    /\ TextArrives("empty")
    /\ \E input \in FetchTexts :
          Len(ParsedQuestions(variant, input.hasHeader, input.rows)) = 0
    /\ FetchQuestionsEmpty

\* smartShuffle throws: the outer catch logs the error.
FetchShuffleThrows ==
    /\ TextArrives("threw")
    /\ \E input \in FetchTexts :
          ShuffleThrows(ParsedQuestions(variant, input.hasHeader, input.rows))
    /\ FetchQuestionsEmpty

NextFetch ==
    \/ (\E result \in ResponseResults : PrimaryResponds(result))
          /\
              UNCHANGED <<appVars, tripVars, shuffleVars, parseVars, swipeVars, cardVars, staleVars>>
    \/ PrimaryBodyFails
          /\
              UNCHANGED <<appVars, tripVars, shuffleVars, parseVars, swipeVars, cardVars, staleVars>>
    \/ SecondaryOk /\
        UNCHANGED <<appVars, tripVars, shuffleVars, parseVars, swipeVars, cardVars, staleVars>>
    \/ (\E result \in FailureResults : SecondaryFails(result))
          /\ UNCHANGED <<tripVars, shuffleVars, parseVars, swipeVars, cardVars, staleVars>>
    \/ FetchLoads /\ UNCHANGED <<tripVars, shuffleVars, parseVars, swipeVars, cardVars, staleVars>>
    \/ FetchParsesNothing /\
        UNCHANGED <<tripVars, shuffleVars, parseVars, swipeVars, cardVars, staleVars>>
    \/ FetchShuffleThrows /\
        UNCHANGED <<tripVars, shuffleVars, parseVars, swipeVars, cardVars, staleVars>>

SpecFetch == Init /\ [][NextFetch]_vars

\* Every request settles and the continuation of an await that settled runs.
SpecFetchFair == SpecFetch /\ WF_vars(NextFetch)

\* ------------------------------------------- the document listener effect
\* if (Math.abs(deltaX) > Math.abs(deltaY) && Math.abs(deltaX) > 50)
SwipeThreshold == 50

\* Math.abs
Abs(n) == IF n < 0 THEN -n ELSE n

\* A variant that takes a movement of exactly the threshold for a swipe.
IsHorizontalSwipeFromThreshold(deltaX, deltaY) ==
    Abs(deltaX) > Abs(deltaY) /\ Abs(deltaX) >= SwipeThreshold

IsHorizontalSwipe(deltaX, deltaY) ==
    Abs(deltaX) > Abs(deltaY) /\ Abs(deltaX) > SwipeThreshold

\* The effect has no dependencies: its handlers call the nextQuestion and the
\* prevQuestion of the first render, which hold the first render's currentIndex
\* and slides.
MountClosure == [currentIndex |-> 0, slidesLength |-> 0]

\* The positions of a press and of a release.
XCoordinates == {0, SwipeThreshold, SwipeThreshold + 1}
YCoordinates == {0, SwipeThreshold + 1}

\* No call of handleEnd since the last press.
NoRelease == [dragging |-> FALSE, startX |-> 0, startY |-> 0, clientX |-> 0,
              clientY |-> 0, called |-> "none"]

\* handleStart, from mousedown or touchstart.
handleStart(clientX, clientY) ==
    /\ startX' = clientX
    /\ startY' = clientY
    /\ isDragging' = TRUE
    /\ docCommand' = NoRelease

\* handleEnd, from mouseup or touchend.
handleEnd(clientX, clientY) ==
    LET deltaX == clientX - startX
        deltaY == clientY - startY
        called == IF ~isDragging \/ ~IsHorizontalSwipe(deltaX, deltaY) THEN "none"
                  ELSE IF deltaX > 0 THEN "prev"
                  ELSE "next"
    IN /\ docCommand' = [dragging |-> isDragging, startX |-> startX, startY |-> startY,
                         clientX |-> clientX, clientY |-> clientY, called |-> called]
       /\ CASE called = "prev" -> prevQuestion(MountClosure.currentIndex)
            [] called = "next" ->
                 nextQuestion(MountClosure.currentIndex, MountClosure.slidesLength)
            [] OTHER -> UNCHANGED appVars
       /\ isDragging' = FALSE
       /\ UNCHANGED <<startX, startY>>

\* The sheet the swipes are made on.
SwipeSheet == [hasHeader |-> TRUE, rows |-> SubSeq(PlainSheet, 1, MaxRows)]

FetchSwipeSheet ==
    /\ loading
    /\ FetchQuestionsLoaded(SwipeSheet.hasHeader, SwipeSheet.rows)

NextSwipe ==
    \/ FetchSwipeSheet /\
        UNCHANGED <<tripVars, shuffleVars, parseVars, fetchVars, swipeVars, cardVars, staleVars>>
    \/ (\E x \in XCoordinates, y \in YCoordinates : handleStart(x, y))
          /\
              UNCHANGED <<appVars, tripVars, shuffleVars, parseVars, fetchVars, cardVars, staleVars>>
    \/ (\E x \in XCoordinates, y \in YCoordinates : handleEnd(x, y))
          /\ UNCHANGED <<tripVars, shuffleVars, parseVars, fetchVars, cardVars, staleVars>>
    \/ CardSwipeLeft /\ UNCHANGED <<tripVars, auxVars>>
    \/ CardSwipeRight /\ UNCHANGED <<tripVars, auxVars>>
    \/ (\E k \in 1..MaxPending : SettleTimerFires(k)) /\ UNCHANGED <<tripVars, auxVars>>
    \/ ClearTimerFires /\ UNCHANGED <<tripVars, auxVars>>

SpecSwipe == Init /\ [][NextSwipe]_vars

\* ------------------------------------------------- the recognizers of QuizCard
\* const minSwipeDistance = 50
minSwipeDistance == 50

\* The click areas are w-20 wide (80 px), the card at most 500 px.
ZoneWidth == 80
CardWidth == 500

\* useState<number | null>(null): null, which no clientX equals.
NullCoordinate == -1

\* !touchStart, !mouseEnd: null and 0 are falsy.
Falsy(value) == value = NullCoordinate \/ value = 0

\* The clientX of presses, moves and releases, the card's left edge at 0: one
\* place in the left click area, one between the areas, two in the right area
\* (50 and 51 apart from their neighbours).
CardXs ==
    {0, CardWidth - 2 * minSwipeDistance - 10, CardWidth - minSwipeDistance - 10,
     CardWidth - 9}

\* The element of the card under x.
ZoneOf(x) ==
    IF x < ZoneWidth THEN "left"
    ELSE IF x >= CardWidth - ZoneWidth THEN "right"
    ELSE "body"

\* distance, isLeftSwipe / isLeftDrag, isRightSwipe / isRightDrag
SwipeCommand(start, end) ==
    LET distance == start - end
    IN IF distance > minSwipeDistance THEN "next"
       ELSE IF distance < -minSwipeDistance THEN "prev"
       ELSE "none"

\* A variant with the click areas exchanged.
ZoneCommandExchanged(zone) ==
    CASE zone = "left" -> "next"
      [] zone = "right" -> "prev"
      [] OTHER -> "none"

\* onClick={onSwipeRight} on the left area, onClick={onSwipeLeft} on the right
\* one; the card itself has no onClick.
ZoneCommand(zone) ==
    CASE zone = "left" -> "prev"
      [] zone = "right" -> "next"
      [] OTHER -> "none"

\* Nothing dispatched to the card since the last press.
NoCardCommand ==
    [gesture |-> "none", dragging |-> FALSE, start |-> NullCoordinate,
     end |-> NullCoordinate, called |-> "none", clickZone |-> "none",
     clickCalled |-> "none"]

\* onSwipeLeft is the nextQuestion and onSwipeRight the prevQuestion of the
\* latest render of QuizApp.
CallNavigation(called) ==
    /\ CASE called = "next" -> nextQuestion(currentIndex, Len(slides))
         [] called = "prev" -> prevQuestion(currentIndex)
         [] OTHER -> UNCHANGED appVars
    /\ issued' = IF timers' # timers THEN issued + 1 ELSE issued

\* The mouse button goes down on the card: onMouseDown, then the document's
\* mousedown listener.
MousePress(x) ==
    /\ CardShown
    /\ pointer.phase = "up"
    /\ mouseEnd' = NullCoordinate
    /\ mouseStart' = x
    /\ cardIsDragging' = TRUE
    /\ handleStart(x, 0)
    /\ pointer' = [phase |-> "down", kind |-> "mouse", x |-> x, pressX |-> x,
                   onCard |-> TRUE, moved |-> FALSE]
    /\ cardCommand' = NoCardCommand
    /\ issued' = 0
    /\ UNCHANGED <<appVars, touchStart, touchEnd>>

\* The mouse moves over the card with the button down: onMouseMove.
MouseMove(x) ==
    /\ pointer.phase = "down"
    /\ pointer.kind = "mouse"
    /\ x # pointer.x
    /\ mouseEnd' = IF cardIsDragging THEN x ELSE mouseEnd
    /\ pointer' = [pointer EXCEPT !.x = x, !.onCard = TRUE, !.moved = TRUE]
    /\ UNCHANGED <<appVars, swipeVars, touchStart, touchEnd, mouseStart, cardIsDragging,
                   cardCommand, issued>>

\* The mouse leaves the card with the button down: onMouseLeave.
MouseLeave ==
    /\ pointer.phase = "down"
    /\ pointer.kind = "mouse"
    /\ pointer.onCard
    /\ cardIsDragging' = FALSE
    /\ pointer' = [pointer EXCEPT !.onCard = FALSE, !.moved = TRUE]
    /\ UNCHANGED <<appVars, swipeVars, touchStart, touchEnd, mouseStart, mouseEnd,
                   cardCommand, issued>>

\* The button is released: onMouseUp when the mouse is over the card.
MouseUp ==
    /\ pointer.phase = "down"
    /\ pointer.kind = "mouse"
    /\ pointer' = [pointer EXCEPT !.phase = "released"]
    /\ IF pointer.onCard
       THEN LET called ==
                    IF ~cardIsDragging \/ Falsy(mouseStart) \/ Falsy(mouseEnd)
                    THEN "none"
                    ELSE SwipeCommand(mouseStart, mouseEnd)
            IN /\ cardCommand' = [cardCommand EXCEPT !.gesture = "mouse",
                                     !.dragging = cardIsDragging, !.start = mouseStart,
                                     !.end = mouseEnd, !.called = called]
               /\ cardIsDragging' = FALSE
               /\ CallNavigation(called)
       ELSE UNCHANGED <<appVars, cardIsDragging, cardCommand, issued>>
    /\ UNCHANGED <<swipeVars, touchStart, touchEnd, mouseStart, mouseEnd>>

\* A finger goes down on the card: onTouchStart, then the document's touchstart
\* listener.
TouchPress(x) ==
    /\ CardShown
    /\ pointer.phase = "up"
    /\ touchEnd' = NullCoordinate
    /\ touchStart' = x
    /\ handleStart(x, 0)
    /\ pointer' = [phase |-> "down", kind |-> "touch", x |-> x, pressX |-> x,
                   onCard |-> TRUE, moved |-> FALSE]
    /\ cardCommand' = NoCardCommand
    /\ issued' = 0
    /\ UNCHANGED <<appVars, mouseStart, mouseEnd, cardIsDragging>>

\* The finger moves: onTouchMove.
TouchMove(x) ==
    /\ pointer.phase = "down"
    /\ pointer.kind = "touch"
    /\ x # pointer.x
    /\ touchEnd' = x
    /\ pointer' = [pointer EXCEPT !.x = x, !.moved = TRUE]
    /\ UNCHANGED <<appVars, swipeVars, touchStart, mouseStart, mouseEnd, cardIsDragging,
                   cardCommand, issued>>

\* The finger is lifted: onTouchEnd.
TouchUp ==
    /\ pointer.phase = "down"
    /\ pointer.kind = "touch"
    /\ pointer' = [pointer EXCEPT !.phase = "released"]
    /\ LET called == IF Falsy(touchStart) \/ Falsy(touchEnd) THEN "none"
                     ELSE SwipeCommand(touchStart, touchEnd)
       IN /\ cardCommand' = [cardCommand EXCEPT !.gesture = "touch", !.dragging = TRUE,
                                !.start = touchStart, !.end = touchEnd,
                                !.called = called]
          /\ CallNavigation(called)
    /\ UNCHANGED <<swipeVars, touchStart, touchEnd, mouseStart, mouseEnd,
                   cardIsDragging>>

\* A click follows the release when press and release were on the same element
\* of the card; after a touch only when the finger did not move.
ClickFollows ==
    /\ pointer.onCard
    /\ ZoneOf(pointer.x) = ZoneOf(pointer.pressX)
    /\ pointer.kind = "mouse" \/ ~pointer.moved

\* The mouseup or touchend reaches the document's listener: handleEnd.
DocumentUp ==
    /\ pointer.phase = "released"
    /\ handleEnd(pointer.x, 0)
    /\ pointer' = [pointer EXCEPT !.phase = IF ClickFollows THEN "click" ELSE "up"]
    /\ issued' = IF timers' # timers THEN issued + 1 ELSE issued
    /\ UNCHANGED <<touchStart, touchEnd, mouseStart, mouseEnd, cardIsDragging,
                   cardCommand>>

\* The click is dispatched to the element under the pointer.  After a tap the
\* browser first dispatches the mousedown and mouseup it derives from the touch:
\* onMouseDown, onMouseUp (which calls nothing, mouseEnd being null).
Click ==
    /\ pointer.phase = "click"
    /\ pointer' = [pointer EXCEPT !.phase = "up"]
    /\ IF pointer.kind = "touch"
       THEN mouseEnd' = NullCoordinate /\ mouseStart' = pointer.x
       ELSE UNCHANGED <<mouseStart, mouseEnd>>
    /\ cardCommand' = [cardCommand EXCEPT !.clickZone = ZoneOf(pointer.x),
                          !.clickCalled = ZoneCommand(ZoneOf(pointer.x))]
    /\ CallNavigation(ZoneCommand(ZoneOf(pointer.x)))
    /\ UNCHANGED <<swipeVars, touchStart, touchEnd, cardIsDragging>>

\* Timers fire between the events of a press and release, not between the
\* handlers of one event.
PointerAtRest == pointer.phase \in {"up", "down"}

\* The sheet the card is shown for.
CardSheet == [hasHeader |-> TRUE, rows |-> SubSeq(PlainSheet, 1, 3)]

FetchCardSheet ==
    /\ loading
    /\ FetchQuestionsLoaded(CardSheet.hasHeader, CardSheet.rows)

\* The card under the mouse.
NextCard ==
    \/ FetchCardSheet /\ UNCHANGED <<tripVars, auxVars>>
    \/ (\E x \in CardXs : MousePress(x))
          /\ UNCHANGED <<tripVars, shuffleVars, parseVars, fetchVars, staleVars>>
    \/ (\E x \in CardXs : MouseMove(x))
          /\ UNCHANGED <<tripVars, shuffleVars, parseVars, fetchVars, staleVars>>
    \/ MouseLeave /\ UNCHANGED <<tripVars, shuffleVars, parseVars, fetchVars, staleVars>>
    \/ MouseUp /\ UNCHANGED <<tripVars, shuffleVars, parseVars, fetchVars, staleVars>>
    \/ DocumentUp /\ UNCHANGED <<tripVars, shuffleVars, parseVars, fetchVars, staleVars>>
    \/ Click /\ UNCHANGED <<tripVars, shuffleVars, parseVars, fetchVars, staleVars>>
    \/ (PointerAtRest /\ \E k \in 1..MaxPending : SettleTimerFires(k))
          /\ UNCHANGED <<tripVars, auxVars>>
    \/ (PointerAtRest /\ ClearTimerFires) /\ UNCHANGED <<tripVars, auxVars>>

SpecCard == Init /\ [][NextCard]_vars

\* The card under a finger.
NextTouch ==
    \/ FetchCardSheet /\ UNCHANGED <<tripVars, auxVars>>
    \/ (\E x \in CardXs : TouchPress(x))
          /\ UNCHANGED <<tripVars, shuffleVars, parseVars, fetchVars, staleVars>>
    \/ (\E x \in CardXs : TouchMove(x))
          /\ UNCHANGED <<tripVars, shuffleVars, parseVars, fetchVars, staleVars>>
    \/ TouchUp /\ UNCHANGED <<tripVars, shuffleVars, parseVars, fetchVars, staleVars>>
    \/ DocumentUp /\ UNCHANGED <<tripVars, shuffleVars, parseVars, fetchVars, staleVars>>
    \/ Click /\ UNCHANGED <<tripVars, shuffleVars, parseVars, fetchVars, staleVars>>
    \/ (PointerAtRest /\ \E k \in 1..MaxPending : SettleTimerFires(k))
          /\ UNCHANGED <<tripVars, auxVars>>
    \/ (PointerAtRest /\ ClearTimerFires) /\ UNCHANGED <<tripVars, auxVars>>

SpecTouch == Init /\ [][NextTouch]_vars

\* ------------------------------------------------------- round-trip observer
\* A step in which the filter effect ran: one of its dependencies changed, or
\* handleClose handed setSelectedCategories another array than the state held.
DeckRecomputed ==
    \/ selectedCategories' # selectedCategories
    \/ allQuestions' # allQuestions
    \/ Len(availableCategories') # Len(availableCategories)
    \/ isMixedMode' # isMixedMode
    \/ introSlide' # introSlide
    \/ categorySelectorOpen /\ ~categorySelectorOpen' /\ ~tempIsSelected

\* A step in which the oldest settle timer fired.
SettleStep ==
    \E k \in DOMAIN timers :
        /\ timers[k].kind = "settle"
        /\ timers' = Append(Without(timers, k), ClearTimer)

\* A step in which nextQuestion (prevQuestion) passed its guard.
AdvanceCalled == timers' = Append(timers, SettleTimer("next"))
RetreatCalled == timers' = Append(timers, SettleTimer("prev"))

\* The observer follows one trip: a nextQuestion that passes its guard with no
\* timer pending ("advancing"), its settle timer ("advanced"), then a
\* prevQuestion that passes its guard ("retreating") and its settle timer
\* ("returned").  Any other navigation call, settle timer or deck recomputation
\* in between abandons the trip.
TripObserver ==
    IF timers = <<>> /\ AdvanceCalled
    THEN tripPhase' = "advancing" /\ tripStart' = currentIndex
    ELSE IF tripPhase = "advancing" /\ SettleStep
    THEN tripPhase' = "advanced" /\ UNCHANGED tripStart
    ELSE IF tripPhase = "advanced" /\ RetreatCalled
    THEN tripPhase' = "retreating" /\ UNCHANGED tripStart
    ELSE IF tripPhase = "retreating" /\ SettleStep
    THEN tripPhase' = "returned" /\ UNCHANGED tripStart
    ELSE IF AdvanceCalled \/ RetreatCalled \/ SettleStep \/ DeckRecomputed
    THEN tripPhase' = "idle" /\ tripStart' = 0
    ELSE UNCHANGED tripVars

\* Navigation with the observer: the fetch, the card, the keys, the timers and
\* the depth switch as the operation that replaces the deck.
NextRoundTrip ==
    \/ FetchSheet /\ TripObserver /\ UNCHANGED auxVars
    \/ FetchQuestionsEmpty /\ TripObserver /\ UNCHANGED auxVars
    \/ CardSwipeLeft /\ TripObserver /\ UNCHANGED auxVars
    \/ CardSwipeRight /\ TripObserver /\ UNCHANGED auxVars
    \/ KeyArrowRight /\ TripObserver /\ UNCHANGED auxVars
    \/ KeyArrowLeft /\ TripObserver /\ UNCHANGED auxVars
    \/ (\E k \in 1..MaxPending : SettleTimerFires(k)) /\ TripObserver /\ UNCHANGED auxVars
    \/ ClearTimerFires /\ TripObserver /\ UNCHANGED auxVars
    \/ (\E checked \in BOOLEAN : SetIsMixedMode(checked)) /\ TripObserver /\ UNCHANGED auxVars

SpecRoundTrip == Init /\ [][NextRoundTrip]_vars

\* ------------------------------------------------- timers that outlive a deck
\* The settle timers among the pending timers.
SettleCount(pending) ==
    Cardinality({k \in DOMAIN pending : pending[k].kind = "settle"})

\* The observer counts the settle timers that were pending when the deck was
\* last replaced and have not fired yet; settle timers fire oldest first, so a
\* settle timer that fires while the count is positive is one of them.  It also
\* notes whether a navigation call has passed its guard since that replacement.
StaleObserver ==
    /\ staleSettles' = IF DeckRecomputed THEN SettleCount(timers')
                       ELSE IF SettleStep /\ staleSettles > 0 THEN staleSettles - 1
                       ELSE staleSettles
    /\ navigated' = IF DeckRecomputed THEN FALSE
                    ELSE IF AdvanceCalled \/ RetreatCalled THEN TRUE
                    ELSE navigated

StaleFrame == UNCHANGED <<tripVars, shuffleVars, parseVars, fetchVars, swipeVars, cardVars>>

\* Navigation with this observer: the fetch, the card, the keys, the timers and
\* the depth switch as the operation that replaces the deck.
NextStale ==
    \/ FetchSheet /\ StaleObserver /\ StaleFrame
    \/ FetchQuestionsEmpty /\ StaleObserver /\ StaleFrame
    \/ CardSwipeLeft /\ StaleObserver /\ StaleFrame
    \/ CardSwipeRight /\ StaleObserver /\ StaleFrame
    \/ KeyArrowRight /\ StaleObserver /\ StaleFrame
    \/ KeyArrowLeft /\ StaleObserver /\ StaleFrame
    \/ (\E k \in 1..MaxPending : SettleTimerFires(k)) /\ StaleObserver /\ StaleFrame
    \/ ClearTimerFires /\ StaleObserver /\ StaleFrame
    \/ (\E checked \in BOOLEAN : SetIsMixedMode(checked)) /\ StaleObserver /\ StaleFrame

SpecStale == Init /\ [][NextStale]_vars

\* ==================================================================== claims
\* ---- C1
\* C1: whenever the deck is non-empty, 0 <= currentIndex < slides.length, so that
\* slides[currentIndex] is defined.
C1_IndexInRange ==
    Len(slides) > 0 => (0 <= currentIndex /\ currentIndex < Len(slides))

\* ---- C2
\* C2: every step that recomputes the deck installs the deck projected from the
\* new inputs and sets currentIndex to 0 in that same step, whatever the index
\* was before.
C2_RecomputeResetsIndex ==
    [][DeckRecomputed =>
          /\ currentIndex' = 0
          /\ slides' = ProjectSlides(variant, allQuestions', selectedCategories',
                                     availableCategories', isMixedMode', introSlide')]_vars

\* The index is 0 with a clear timer pending and the incoming-from-right marker
\* still set: a forward navigation moved the index to 1 and the deck, here still
\* long enough for index 1, was recomputed before the marker was cleared.
C2_Witness ==
    /\ currentIndex = 0
    /\ animationClass = SlideInRight
    /\ timers = <<ClearTimer>>
    /\ Len(slides) >= 2
    /\ ~renderError

\* ---- C3
\* The step is a call of nextQuestion, from the card or from the keydown
\* listener, made when currentIndex is the last index or the deck is empty.
NextCalledAtEnd ==
    /\ currentIndex = Len(slides) - 1 \/ Len(slides) = 0
    /\ CardSwipeLeft \/ KeyArrowRight

\* The step is a call of prevQuestion made when currentIndex is 0 or the deck is
\* empty.
PrevCalledAtStart ==
    /\ currentIndex = 0 \/ Len(slides) = 0
    /\ CardSwipeRight \/ KeyArrowLeft

\* C3: nextQuestion called at the last index and prevQuestion called at index 0,
\* and both called on an empty deck, leave currentIndex unchanged, schedule no
\* timer and make no render throw.
C3_BoundaryCallsChangeNothing ==
    [][(NextCalledAtEnd \/ PrevCalledAtStart) =>
          UNCHANGED <<currentIndex, timers, renderError>>]_vars

\* ---- C4
\* C4: in every state in which nextQuestion can be called at the last index, or
\* prevQuestion at index 0, the animation marker is '' after the call.  Called
\* from the shown card at these indexes the guard fails and the call changes
\* nothing, so the state after the call is the state it is made in.
C4_MarkerNoneAtBoundary ==
    /\ (CardShown /\ currentIndex = Len(slides) - 1) => animationClass = NoAnimation
    /\ (CardShown /\ currentIndex = 0) => animationClass = NoAnimation

\* ---- C5
\* C5: a nextQuestion that passes its guard with no timer pending sets the marker
\* to slide-out-left, leaves currentIndex and schedules the settle timer; that
\* timer adds exactly 1 to currentIndex, sets the marker to slide-in-right and
\* schedules the clear timer; the clear timer sets the marker to '' and leaves
\* currentIndex.  currentIndex changes in no step but a settle timer's and a deck
\* recomputation.
C5_AdvancePhases ==
    /\ [][(timers = <<>> /\ timers' = <<SettleTimer("next")>>) =>
             /\ animationClass' = SlideOutLeft
             /\ currentIndex' = currentIndex
             /\ \/ NextGuard(currentIndex, Len(slides))
                \/ NextGuard(currentIndex, keySlidesLength)]_vars
    /\ [][(timers = <<SettleTimer("next")>> /\ timers' = <<ClearTimer>>) =>
             /\ currentIndex' = currentIndex + 1
             /\ animationClass' = SlideInRight]_vars
    /\ [][(timers = <<ClearTimer>> /\ timers' = <<>>) =>
             /\ animationClass' = NoAnimation
             /\ currentIndex' = currentIndex]_vars
    /\ [][currentIndex' # currentIndex => (SettleStep \/ DeckRecomputed)]_vars

\* A forward navigation has run through all its phases: the index is past 0 on a
\* slide of the deck, no timer is pending and the marker is cleared.
C5_Witness ==
    /\ CardShown
    /\ currentIndex >= 1
    /\ currentIndex < Len(slides)
    /\ timers = <<>>
    /\ animationClass = NoAnimation

\* ---- C6
\* C6: a prevQuestion that passes its guard with no timer pending sets the marker
\* to slide-out-right, leaves currentIndex and schedules the settle timer; that
\* timer subtracts exactly 1 from currentIndex and sets the marker to
\* slide-in-left; the clear timer sets the marker to '' and leaves currentIndex.
\* A nextQuestion followed, after its settle timer fired, by a prevQuestion and
\* its settle timer, with no other navigation and no deck recomputation in
\* between, brings currentIndex back to the value it had when nextQuestion was
\* called.
C6_RetreatMirrorsAdvance ==
    /\ [][(timers = <<>> /\ timers' = <<SettleTimer("prev")>>) =>
             /\ animationClass' = SlideOutRight
             /\ currentIndex' = currentIndex
             /\ PrevGuard(currentIndex)]_vars
    /\ [][(timers = <<SettleTimer("prev")>> /\ timers' = <<ClearTimer>>) =>
             /\ currentIndex' = currentIndex - 1
             /\ animationClass' = SlideInLeft]_vars
    /\ [][(timers = <<ClearTimer>> /\ timers' = <<>> /\ animationClass = SlideInLeft) =>
             /\ animationClass' = NoAnimation
             /\ currentIndex' = currentIndex]_vars
    /\ [](tripPhase = "returned" => currentIndex = tripStart)

\* A round trip is complete on a shown card: nextQuestion was called at
\* tripStart, prevQuestion after the settle, and the marker of the retreat is
\* still set.
C6_Witness ==
    /\ tripPhase = "returned"
    /\ CardShown
    /\ currentIndex = tripStart
    /\ animationClass = SlideInLeft

\* ---- the inputs and the outputs of the projection, in the claims' terms
\* The RecordSet: the shuffled records the state holds.
RecordSet == allQuestions

\* The designated intro record: version 1 takes the first record of the reserved
\* category, version 2 the record kept aside by the parse loop.
IntroRecord ==
    LET introQuestions == SelectSeq(allQuestions, LAMBDA q : q.category = IntroCategory)
    IN IF variant = 1
       THEN IF Len(introQuestions) > 0 THEN introQuestions[1] ELSE Null
       ELSE introSlide

IsIntroSlide(s) == s.type = "intro" \/ s.isIntroSlide

\* One question slide per record of `records`, in their order.
QuestionSlides(records) == [i \in DOMAIN records |-> QuestionSlide(records[i])]

AllSelected == Range(selectedCategories) = Range(availableCategories)

StrictSubset ==
    /\ Range(selectedCategories) \subseteq Range(availableCategories)
    /\ Range(selectedCategories) # Range(availableCategories)

\* The records of the RecordSet outside the reserved category of version 1.
OrdinaryRecords ==
    SelectSeq(RecordSet, LAMBDA q : variant = 1 => q.category # IntroCategory)

\* The records of the RecordSet the filter state selects.
SelectedRecords ==
    SelectSeq(RecordSet, LAMBDA q :
        /\ Includes(selectedCategories, q.category)
        /\ (~isMixedMode => q.depth = "light"))

\* ---- C7
\* C7 as stated: with every category selected, deep mode on and an intro record
\* designated, the deck is the intro slide of that record followed by one
\* question slide for every record of the RecordSet, in RecordSet order.
C7_FullDeckEveryRecord ==
    (AllSelected /\ isMixedMode /\ IntroRecord # Null) =>
        /\ Len(slides) = 1 + Len(RecordSet)
        /\ IsIntroSlide(slides[1])
        /\ slides[1].question = IntroRecord
        /\ Tail(slides) = QuestionSlides(RecordSet)

\* C7 as amended: with every category selected, deep mode on and an intro record
\* designated, the deck is the intro slide of that record followed by one
\* question slide for every record of the RecordSet outside the reserved intro
\* category, in RecordSet order.
C7_FullDeckOrdinaryRecords ==
    (AllSelected /\ isMixedMode /\ IntroRecord # Null) =>
        /\ Len(slides) = 1 + Len(OrdinaryRecords)
        /\ IsIntroSlide(slides[1])
        /\ slides[1].question = IntroRecord
        /\ Tail(slides) = QuestionSlides(OrdinaryRecords)

\* Every category was deselected and selected again (the selection lists them in
\* another order than the sheet), deep mode is on, and the deck shows the intro
\* slide and at least two question slides.
C7_Witness ==
    /\ ~loading
    /\ AllSelected
    /\ selectedCategories # availableCategories
    /\ isMixedMode
    /\ IntroRecord # Null
    /\ Len(slides) >= 3
    /\ IsIntroSlide(slides[1])

\* ---- C8
\* C8 as stated: with a strict subset of the available categories selected, the
\* deck has no intro slide and is exactly the RecordSet records of a selected
\* category (the light ones only when deep mode is off), each once, in RecordSet
\* order; and an empty selection gives an empty deck.
C8_SubsetDeckAndEmptySelection ==
    /\ StrictSubset => slides = QuestionSlides(SelectedRecords)
    /\ selectedCategories = <<>> => slides = <<>>

\* C8 as amended: with a strict subset of the available categories selected, the
\* deck has no intro slide and is exactly the RecordSet records of a selected
\* category (the light ones only when deep mode is off), each once, in RecordSet
\* order; an empty selection gives an empty deck when at least one category is
\* available.
C8_SubsetDeck ==
    /\ StrictSubset => slides = QuestionSlides(SelectedRecords)
    /\ (selectedCategories = <<>> /\ availableCategories # <<>>) => slides = <<>>

\* One of two categories is selected, an intro record exists and stays out of
\* the deck, and the deck shows some but not all ordinary records.
C8_Witness ==
    /\ ~loading
    /\ StrictSubset
    /\ Len(selectedCategories) = 1
    /\ IntroRecord # Null
    /\ Len(slides) >= 1
    /\ Len(slides) < Len(OrdinaryRecords)

\* ---- C9
\* C9: with deep mode off, every slide of the deck is a question slide of a light
\* record and none is an intro slide, and every light record of a selected
\* category is in the deck.
C9_LightModeDeck ==
    ~isMixedMode =>
        /\ \A i \in DOMAIN slides :
              /\ slides[i].type = "question"
              /\ ~IsIntroSlide(slides[i])
              /\ slides[i].question.depth = "light"
        /\ \A i \in DOMAIN RecordSet :
              (/\ Includes(selectedCategories, RecordSet[i].category)
               /\ RecordSet[i].depth = "light")
              => Includes(slides, QuestionSlide(RecordSet[i]))

\* Deep mode is off with every category selected and an intro record designated:
\* the deck shows a light record while a deep record of a selected category and
\* the intro record stay out.
C9_Witness ==
    /\ ~loading
    /\ ~isMixedMode
    /\ AllSelected
    /\ IntroRecord # Null
    /\ Len(slides) >= 1
    /\ \E i \in DOMAIN RecordSet :
          /\ Includes(selectedCategories, RecordSet[i].category)
          /\ RecordSet[i].depth = "deep"

\* ---- C10
\* C10: in every state the deck is the projection of the current record set,
\* selection, depth mode and intro record, and `questions` the filtered records
\* of the same inputs, whatever sequence of fetch, toggles and dialog closings led
\* there.
C10_DeckIsProjection ==
    /\ slides = ProjectSlides(variant, allQuestions, selectedCategories,
                              availableCategories, isMixedMode, introSlide)
    /\ questions = FilteredQuestions(variant, allQuestions, selectedCategories,
                                     isMixedMode)

\* After the fetch a category was deselected in the dialog, the dialog closed
\* and the depth switch turned off, and the deck still shows a slide.
C10_Witness ==
    /\ ~loading
    /\ ~categorySelectorOpen
    /\ ~isMixedMode
    /\ Len(selectedCategories) < Len(availableCategories)
    /\ Len(slides) >= 1

\* ---- C11
\* a is a permutation of b: the same length, every element of b exactly once.
IsPermutation(a, b) ==
    /\ Len(a) = Len(b)
    /\ \A i \in DOMAIN b : Cardinality({j \in DOMAIN a : a[j] = b[i]}) = 1

\* C11: for every input list and every outcome of the random choices, a call of
\* smartShuffle returns a list, and that list is a permutation of the input.
C11_ShuffleIsPermutation ==
    shuffleOutput.kind # "idle" =>
        /\ shuffleOutput.kind = "returned"
        /\ IsPermutation(shuffleOutput.list, shuffleInput)

\* ---- C12
\* The number of questions of category c among the first p of list s, and among
\* the rest.
Emitted(s, p, c) == Cardinality({i \in 1..p : s[i].category = c})
Unemitted(s, p, c) == Cardinality({i \in (p + 1)..Len(s) : s[i].category = c})

\* In every prefix, two categories that both have questions left have emitted
\* numbers of questions that differ by at most 1.
BalancedPrefixes(s) ==
    \A p \in 0..Len(s) : \A c, d \in Range(CategoryList(s)) :
        (Unemitted(s, p, c) > 0 /\ Unemitted(s, p, d) > 0) =>
            /\ Emitted(s, p, c) - Emitted(s, p, d) <= 1
            /\ Emitted(s, p, d) - Emitted(s, p, c) <= 1

\* A third question of the same category in a row is emitted only when no other
\* category has a question left.
ShortRuns(s) ==
    \A i \in 1..(Len(s) - 2) :
        (s[i].category = s[i + 1].category /\ s[i + 1].category = s[i + 2].category) =>
            \A d \in Range(CategoryList(s)) \ {s[i].category} :
                Unemitted(s, i + 1, d) = 0

\* C12: every list smartShuffle returns is emitted in sweeps of at most one
\* question per category: its prefixes are balanced between the categories that
\* still have questions left, and no run of one category is longer than 2 while
\* another category has questions left.
C12_SweepsAreFair ==
    shuffleOutput.kind = "returned" =>
        /\ BalancedPrefixes(shuffleOutput.list)
        /\ ShortRuns(shuffleOutput.list)

\* smartShuffle returned four questions of two categories with two of one
\* category side by side: the end of one sweep and the start of the next.
C12_Witness ==
    /\ shuffleOutput.kind = "returned"
    /\ Len(shuffleOutput.list) = 4
    /\ Cardinality(Range(CategoryList(shuffleOutput.list))) = 2
    /\ shuffleOutput.list[2].category = shuffleOutput.list[3].category
    /\ shuffleOutput.list[1].category # shuffleOutput.list[2].category

\* ---- C13
\* The scanner is at character char of the line.
AtChar(char) ==
    parsePc = "scan" /\ scanJ < Len(scanLine) /\ scanLine[scanJ + 1] = char

\* C13: at a comma outside quotes the scanner ends the field (the trimmed text
\* becomes the next value); at a comma inside quotes the comma joins the field
\* text and no field ends; within a line no field ends at any other character;
\* and the text of the one line  cat,"a, b",deep  parses to exactly one Question,
\* of category cat and text  a, b  without the quotes.
C13_CommaSplitsOutsideQuotes ==
    /\ [][AtChar(Comma) =>
             IF scanInQuotes
             THEN /\ scanCurrent' = Append(scanCurrent, Comma)
                  /\ scanValues' = scanValues
                  /\ scanInQuotes'
             ELSE /\ scanValues' = Append(scanValues, Trim(scanCurrent))
                  /\ scanCurrent' = <<>>]_vars
    /\ [][(parsePc = "scan" /\ scanJ < Len(scanLine) /\ scanValues' # scanValues) =>
             (scanLine[scanJ + 1] = Comma /\ ~scanInQuotes)]_vars
    /\ []((parsePc = "done" /\ parseText = <<ExampleLine>>) =>
             /\ parseQuestions =
                   <<Question(<<"c", "a", "t">>, <<"a", ",", " ", "b">>, "deep")>>
             /\ parseIntro = NoIntro)

\* The text  cat,"a, b",deep  is parsed: three values, the second with its comma.
C13_Witness ==
    /\ parsePc = "done"
    /\ parseText = <<ExampleLine>>
    /\ scanValues = <<<<"c", "a", "t">>, <<"a", ",", " ", "b">>, <<"d", "e", "e", "p">>>>
    /\ Len(parseQuestions) = 1

\* ---- C14
\* The scanner is at a quote inside a quoted field with another quote right
\* after it.
AtDoubledQuote ==
    /\ AtChar(Quote)
    /\ scanInQuotes
    /\ scanJ + 2 <= Len(scanLine)
    /\ scanLine[scanJ + 2] = Quote

\* C14: a quote inside a quoted field that is followed at once by another quote
\* adds exactly one quote character to the field, consumes both characters and
\* leaves inQuotes; every other quote toggles inQuotes, consumes one character
\* and adds nothing.
C14_DoubledQuoteIsLiteral ==
    /\ [][AtDoubledQuote =>
             /\ scanCurrent' = Append(scanCurrent, Quote)
             /\ scanJ' = scanJ + 2
             /\ scanInQuotes' = scanInQuotes
             /\ scanValues' = scanValues]_vars
    /\ [][(AtChar(Quote) /\ ~AtDoubledQuote) =>
             /\ scanInQuotes' = ~scanInQuotes
             /\ scanCurrent' = scanCurrent
             /\ scanJ' = scanJ + 1
             /\ scanValues' = scanValues]_vars

\* The line  y,"""q"""  is parsed: its second value is  "q"  with one literal
\* quote on each side.
C14_Witness ==
    /\ parsePc = "done"
    /\ parseText = <<DoubledQuoteLine>>
    /\ scanValues = <<<<"y">>, <<"\"", "q", "\"">>>>

\* ---- C15
\* The depth the claim gives a row: light exactly when a third field is present
\* and contains "light" whatever the case of its letters.
ClaimedDepth(values) ==
    IF Len(values) >= 3 /\ IncludesText(ToLowerCase(values[3]), Light)
    THEN "light" ELSE "deep"

\* C15: every scanned line that is not the header and has non-empty category and
\* text fields yields a Question (pushed to questions, or kept as the intro
\* record), with depth light exactly when a third field is present and contains
\* "light" case-insensitively, and deep otherwise, also when the third field is
\* missing or empty.
C15_RowYieldsRecord ==
    [][(/\ parsePc = "scan"
        /\ scanJ >= Len(scanLine)
        /\ ~IsHeader(parseI, LineValues)
        /\ Len(LineValues) >= 2
        /\ LineValues[1] # <<>>
        /\ LineValues[2] # <<>>) =>
          LET record == Question(LineValues[1], LineValues[2], ClaimedDepth(LineValues))
          IN \/ parseQuestions' = Append(parseQuestions, record)
             \/ parseIntro' = record]_vars

\* ---- C16
\* The lines of the text that are not blank, and their values.
NonBlankLines(text) == SelectSeq(text, LAMBDA line : Trim(line) # <<>>)

\* The number of lines of the text that are not blank, are not the header and
\* have non-empty first and second fields.
PopulatedRows(text) ==
    LET lines == NonBlankLines(text)
    IN Cardinality({k \in DOMAIN lines :
           LET values == ScanLine(Trim(lines[k]))
           IN /\ ~IsHeader(k - 1, values)
              /\ Len(values) >= 2
              /\ values[1] # <<>>
              /\ values[2] # <<>>})

\* C16: when the parse loop is through the text, the number of Questions it
\* built (the one kept as intro record included) is the number of non-blank,
\* non-header lines with non-empty first and second fields; lines with fewer
\* populated fields add nothing and the lines after them are parsed.
C16_RecordCount ==
    parsePc = "done" =>
        Len(parseQuestions) + (IF parseIntro # NoIntro THEN 1 ELSE 0)
            = PopulatedRows(parseText)

\* ---- C17
\* C17: fetchQuestions issues at most two requests, the spreadsheet first; the
\* local file is requested exactly when the request for the spreadsheet failed
\* (rejected, not ok, or its text could not be read), so never when it
\* succeeded, whatever the text parses to, and nothing is requested once the
\* request for the local file has ended.
C17_RequestSequence ==
    /\ requests \in {<<"sheet">>, <<"sheet", "local">>}
    /\ (requests = <<"sheet", "local">>) <=> (primaryResult \in FailureResults)
    /\ (primaryResult = "ok" /\ fetchPc = "done") =>
          (requests = <<"sheet">> /\ secondaryResult = "pending")
    /\ secondaryResult # "pending" => requests = <<"sheet", "local">>

\* The spreadsheet failed with a bad status, the local file was requested and
\* its text was loaded.
C17_Witness ==
    /\ fetchPc = "done"
    /\ primaryResult = "status"
    /\ secondaryResult = "ok"
    /\ requests = <<"sheet", "local">>
    /\ fetchOutcome = "loaded"

\* ---- C18
\* fetchQuestions ended without records: both requests failed, or the text
\* parsed to no Question.
EndedWithoutRecords == fetchPc = "done" /\ fetchOutcome \in {"failed", "empty"}

\* C18: whichever way the requests end, loading eventually becomes false and
\* the promise of fetchQuestions is never rejected; when both requests failed or
\* the text parsed to no Question, loading is false, the RecordSet, the
\* available categories and the deck are still empty, and the render shows no
\* card and does not throw.
C18_FetchAlwaysEnds ==
    /\ <>(~loading)
    /\ [](fetchPromise # "rejected")
    /\ [](fetchPc = "done" => (~loading /\ fetchPromise = "fulfilled"))
    /\ [](EndedWithoutRecords =>
            /\ RecordSet = <<>>
            /\ availableCategories = <<>>
            /\ slides = <<>>
            /\ ~CardShown
            /\ ~renderError)

\* Both requests failed and fetchQuestions is through.
C18_Witness ==
    /\ fetchPc = "done"
    /\ fetchOutcome = "failed"
    /\ primaryResult \in FailureResults
    /\ secondaryResult \in FailureResults
    /\ ~loading

\* ---- C19
\* The movement of the last release, from what handleEnd read.
ReleaseDeltaX == docCommand.clientX - docCommand.startX
ReleaseDeltaY == docCommand.clientY - docCommand.startY

ReleasePasses ==
    /\ docCommand.dragging
    /\ Abs(ReleaseDeltaX) > 50
    /\ Abs(ReleaseDeltaX) > Abs(ReleaseDeltaY)

\* C19: the document listener calls a navigation function only on a release
\* after a press whose horizontal movement is more than 50 and more than the
\* vertical movement: nextQuestion when the movement is to the left,
\* prevQuestion when it is to the right; a movement of exactly 50, a vertical
\* movement at least as large, or a release without a press calls nothing.
C19_DocumentSwipeRule ==
    /\ docCommand.called = "next" <=> (ReleasePasses /\ ReleaseDeltaX < 0)
    /\ docCommand.called = "prev" <=> (ReleasePasses /\ ReleaseDeltaX > 0)
    /\ docCommand.called = "none" <=> ~ReleasePasses

\* A release 51 to the left of its press called nextQuestion.
C19_Witness ==
    /\ docCommand.dragging
    /\ ReleaseDeltaX = -51
    /\ ReleaseDeltaY = 0
    /\ docCommand.called = "next"

\* ---- C20
\* C20: once the deck is loaded, a document swipe that passes the rule does
\* what the same swipe on the card does: a swipe to the left with
\* currentIndex < deck length - 1 starts the advance (the slide-out marker and
\* the timer that increments currentIndex), a swipe to the right with
\* currentIndex > 0 starts the retreat.
C20_DocumentSwipeNavigates ==
    [][(docCommand' # docCommand /\ CardShown /\ Len(timers) < MaxPending) =>
          /\ (docCommand'.called = "next" /\ currentIndex < Len(slides) - 1) =>
                (/\ animationClass' = SlideOutLeft
                 /\ timers' = Append(timers, SettleTimer("next")))
          /\ (docCommand'.called = "prev" /\ currentIndex > 0) =>
                (/\ animationClass' = SlideOutRight
                 /\ timers' = Append(timers, SettleTimer("prev")))]_vars

\* ---- C21
\* C21: the guard the keydown listener evaluates on ArrowRight is the guard on
\* the current currentIndex and the length of the deck now displayed: whenever
\* keys can be pressed on the loaded application, ArrowRight starts an advance
\* exactly when currentIndex < deck length - 1, also right after the fetch or a
\* deck replacement that left currentIndex at 0.
C21_KeyboardGuardIsCurrent ==
    (~loading /\ ~renderError) =>
        (NextGuard(currentIndex, keySlidesLength)
            <=> NextGuard(currentIndex, Len(slides)))

\* ---- C22
\* C22: a touch drag or a mouse drag on the card from start to end, 0 included,
\* makes the card call nextQuestion exactly when end - start < -50,
\* prevQuestion exactly when end - start > 50, and nothing when the movement is
\* at most 50 or the pointer never moved (end is null).
C22_CardDragRule ==
    (cardCommand.gesture \in {"touch", "mouse"} /\ cardCommand.dragging) =>
        LET moved == cardCommand.end # NullCoordinate
            delta == cardCommand.end - cardCommand.start
        IN /\ cardCommand.called = "next" <=> (moved /\ delta < -50)
           /\ cardCommand.called = "prev" <=> (moved /\ delta > 50)
           /\ cardCommand.called = "none" <=> (~moved \/ Abs(delta) <= 50)

\* ---- C23
\* C23: a click dispatched on the left click area calls prevQuestion and one on
\* the right click area calls nextQuestion, whatever the movement between press
\* and release was; a click on the card outside the areas calls nothing.
C23_ClickZones ==
    /\ [](/\ cardCommand.clickZone = "left" => cardCommand.clickCalled = "prev"
          /\ cardCommand.clickZone = "right" => cardCommand.clickCalled = "next"
          /\ cardCommand.clickZone = "body" => cardCommand.clickCalled = "none")
    /\ [][(pointer.phase = "click" /\ pointer'.phase = "up") =>
            /\ cardCommand'.clickZone = ZoneOf(pointer.x)
            /\ (ZoneOf(pointer.x) = "right" /\ NextGuard(currentIndex, Len(slides))) =>
                  timers' = Append(timers, SettleTimer("next"))
            /\ (ZoneOf(pointer.x) = "left" /\ PrevGuard(currentIndex)) =>
                  timers' = Append(timers, SettleTimer("prev"))
            /\ ZoneOf(pointer.x) = "body" => timers' = timers]_vars

\* A click on the right area after the mouse moved 51 within it.
C23_Witness ==
    /\ cardCommand.clickZone = "right"
    /\ cardCommand.clickCalled = "next"
    /\ pointer.kind = "mouse"
    /\ pointer.moved
    /\ pointer.phase = "up"

\* ---- C24
\* C24: the handlers that observe one press and release (onMouseUp or
\* onTouchEnd of the card, the document's handleEnd, the onClick of a click
\* area) start at most one navigation between them, so the press and release
\* changes currentIndex by at most one step.
C24_OneStepPerInteraction == issued <= 1

\* ---- C25
\* The step in which fetchQuestions sets the parsed state.
FetchCompletes == loading /\ ~loading' /\ allQuestions' # <<>>

\* C25: selectedCategories never holds a category twice and holds available
\* categories only, whatever toggles, dialog closes and fetch have happened;
\* the step that completes a successful fetch sets it to the whole list of
\* available categories, so that no filter is active.
C25_SelectionIsSubset ==
    /\ [](/\ Len(Unique(selectedCategories)) = Len(selectedCategories)
          /\ Range(selectedCategories) \subseteq Range(availableCategories))
    /\ [][FetchCompletes =>
            /\ selectedCategories' = availableCategories'
            /\ ~IsFiltered(selectedCategories', availableCategories')]_vars

\* The dialog was closed on a selection of some, not all, available categories.
C25_Witness ==
    /\ ~categorySelectorOpen
    /\ selectedCategories # <<>>
    /\ StrictSubset
    /\ Len(availableCategories) >= 2

\* ---- C26
\* The category label kept for intro records only: '01 Intro' in version 1;
\* version 2 keeps the intro row itself out of the parsed records and reserves
\* no label.
ReservedCategories == IF variant = 1 THEN {IntroCategory} ELSE {}

\* The categories of the parsed records.  The RecordSet is a permutation of
\* them, and the text of a record is the number of its row.
RecordCategories == {q.category : q \in Range(RecordSet)}

\* The row in which the category appears first in the parsed input.
FirstRow(category) ==
    LET rows == {q.question : q \in {r \in Range(RecordSet) : r.category = category}}
    IN CHOOSE n \in rows : \A m \in rows : n <= m

FilterAndDeck == <<selectedCategories, isMixedMode, questions, slides>>

\* C27: once the records are loaded, no step (a navigation call, a timer, a
\* change of the category selection, a depth toggle) changes the RecordSet, the
\* intro record or the list of available categories; a step that schedules or
\* fires a timer (a navigation call that passes its guard, a settle or clear
\* timer) also leaves the FilterState and the deck unchanged.
C27_Frame ==
    /\ [][~loading =>
            /\ RecordSet' = RecordSet
            /\ IntroRecord' = IntroRecord
            /\ introSlide' = introSlide
            /\ availableCategories' = availableCategories]_vars
    /\ [][timers' # timers => UNCHANGED FilterAndDeck]_vars

\* A settle timer has fired on a deck filtered to some of the categories.
C27_Witness ==
    /\ ~loading
    /\ StrictSubset
    /\ selectedCategories # <<>>
    /\ currentIndex = 1
    /\ timers = <<ClearTimer>>

\* ---- C28
\* The settle timers pending for one direction.
PendingSettles(dir) ==
    Cardinality({k \in DOMAIN timers : timers[k] = SettleTimer(dir)})

\* Where currentIndex is once the pending settle timers have fired.
SettledIndex == currentIndex + PendingSettles("next") - PendingSettles("prev")

\* C28: a call from the card that passes its boundary check schedules its own
\* settle timer also while timers of earlier calls are pending (there is room
\* for it below the bound on pending timers); the call leaves currentIndex, and
\* every settle timer that fires applies its own step, so that two
\* nextQuestion calls made at index i before a settle timer fires end at i + 2.
C28_OverlappingCalls ==
    /\ []((CardShown /\ NextGuard(currentIndex, Len(slides))
             /\ Len(timers) < MaxPending) =>
            ENABLED (CardSwipeLeft /\ timers' = Append(timers, SettleTimer("next"))))
    /\ []((CardShown /\ PrevGuard(currentIndex) /\ Len(timers) < MaxPending) =>
            ENABLED (CardSwipeRight /\ timers' = Append(timers, SettleTimer("prev"))))
    /\ [][Len(timers') = Len(timers) + 1 =>
            /\ currentIndex' = currentIndex
            /\ SettledIndex' \in {SettledIndex + 1, SettledIndex - 1}]_vars
    /\ [][(Len(timers') = Len(timers) /\ timers' # timers) =>
            /\ currentIndex' # currentIndex
            /\ SettledIndex' = SettledIndex]_vars

\* Two nextQuestion calls were made at index 0 and no settle timer has fired.
C28_Witness ==
    /\ currentIndex = 0
    /\ timers = <<SettleTimer("next"), SettleTimer("next")>>
    /\ SettledIndex = 2

\* ---- C29
\* C29: a settle timer that was pending when the deck was replaced leaves
\* currentIndex as it is when it fires, and currentIndex is 0 for as long as no
\* navigation call has passed its guard on the deck now installed.
C29_StaleTimersChangeNothing ==
    /\ [][(SettleStep /\ staleSettles > 0) => currentIndex' = currentIndex]_vars
    /\ [](~navigated => currentIndex = 0)

\* ---- C30
\* C30: whenever no timer is pending the animation marker is none, whatever
\* advance and retreat calls were made before.
C30_MarkerClearsAtRest ==
    timers = <<>> => animationClass = NoAnimation

\* Two calls have been made and settled, and every timer has fired.
C30_Witness ==
    /\ timers = <<>>
    /\ ~renderError
    /\ currentIndex >= 2
    /\ animationClass = NoAnimation

\* The clear timer of an earlier call has removed the marker that a later call
\* set, while the settle timer of that later call is still pending.
C30_EarlyClear ==
    /\ animationClass = NoAnimation
    /\ SettleCount(timers) > 0

\* ---- C31
\* C31: the deck holds at most one intro slide and only at its first position;
\* a slide that is not the intro slide shows neither a record of the reserved
\* category nor the intro record.
C31_IntroOnlyFirst ==
    \A i \in DOMAIN slides :
        /\ IsIntroSlide(slides[i]) => i = 1
        /\ ~IsIntroSlide(slides[i]) =>
              /\ slides[i].question.category \notin ReservedCategories
              /\ slides[i].question # IntroRecord

\* A deck of an intro slide followed by question slides.
C31_Witness ==
    /\ Len(slides) >= 2
    /\ IsIntroSlide(slides[1])
    /\ slides[1].question = IntroRecord

\* ---- C32
\* The Questions of the well-formed rows of the text, in the order of the rows:
\* the lines that are not blank, are not the header and pass the test of the
\* version that runs.
WellFormedRows(text) ==
    LET lines == NonBlankLines(text)
        kept == SelectSeq([k \in DOMAIN lines |-> k], LAMBDA k :
                    LET values == ScanLine(Trim(lines[k]))
                    IN ~IsHeader(k - 1, values) /\ WellFormed(variant, values))
    IN [n \in DOMAIN kept |-> LineQuestion(ScanLine(Trim(lines[kept[n]])))]

\* C32: when version 2 is through a text with a well-formed row, the first
\* well-formed row is the intro record and the Questions parsed are the other
\* well-formed rows, in their order.
C32_FirstRowIsIntro ==
    (variant = 2 /\ parsePc = "done" /\ WellFormedRows(parseText) # <<>>) =>
        /\ parseIntro = Head(WellFormedRows(parseText))
        /\ parseQuestions = Tail(WellFormedRows(parseText))

\* ---- C33
\* C33: once the records are loaded, a step that changes the temporary selection
\* of the open dialog toggles one listed category in it and leaves
\* selectedCategories, the deck and currentIndex as they are; the step that closes the dialog makes
\* selectedCategories the temporary selection; and toggling a category twice
\* gives the temporary selection back as a set.
C33_TogglesStayInDialog ==
    /\ [][(/\ ~loading
           /\ categorySelectorOpen
           /\ categorySelectorOpen'
           /\ tempSelection' # tempSelection) =>
             /\ \E category \in Range(availableCategories) :
                   tempSelection' = ToggleCategory(tempSelection, category)
             /\ UNCHANGED <<selectedCategories, questions, slides, currentIndex>>]_vars
    /\ [][(categorySelectorOpen /\ ~categorySelectorOpen') =>
             selectedCategories' = tempSelection]_vars
    /\ [](\A category \in Range(availableCategories) :
             Range(ToggleCategory(ToggleCategory(tempSelection, category), category))
                 = Range(tempSelection))

\* The dialog is open on a deck that was advanced, and its temporary selection
\* differs from the selection in force.
C33_Witness ==
    /\ categorySelectorOpen
    /\ ~renderError
    /\ currentIndex > 0
    /\ Range(tempSelection) # Range(selectedCategories)
    /\ Len(slides) > currentIndex

====
